---- MODULE Spec2Model ----
(***************************************************************************)
(* ReactNativeSVGContext (src/src/index.ts): the immediate-mode drawing    *)
(* context that builds a virtual SVG element tree, with its paint state,   *)
(* save stack, group stack and identifier/class registries.                *)
(*                                                                         *)
(* Objects live in a heap: `nodes` is the sequence of every element object *)
(* ever allocated, a reference is an index into it, and 0 is `undefined`.  *)
(* Optional properties of a JS object are modelled by the domain of the    *)
(* record: node.id exists iff "id" \in DOMAIN node.                        *)
(* Each operation is an operator from a context record to a context        *)
(* record, composed statement by statement as in the source, so that a     *)
(* TypeError thrown half way keeps the assignments made before it.         *)
(***************************************************************************)
EXTENDS Integers, Sequences, FiniteSets, TLC

VARIABLES
    nodes,               \* heap of SVGElementNode objects; nodes[svg] is the root
    parent,              \* this.parent (a reference, or Undefined)
    groups,              \* this.groups
    groupAttributes,     \* this.groupAttributes
    width,               \* this._width
    height,              \* this._height
    path,                \* this.path
    pen,                 \* this.pen
    attributes,          \* this.attributes
    state,               \* this.state
    stateStack,          \* this.stateStack
    backgroundFillStyle, \* this.backgroundFillStyle
    fontCSSString,       \* this.fontCSSString
    nextElementKey,      \* this.nextElementKey
    elementRegistry,     \* this.elementRegistry (Map: id -> node)
    classRegistry,       \* this.classRegistry (Map: class -> node list)
    thrown,              \* whether the last call ended in a TypeError
    lastOp,              \* history: name of the last public method called
    lastNode,            \* history: the node the last call created or was handed, or Undefined
    made,                \* history: the references createElement returned, in order
    opened,              \* history: the openGroup calls that returned since the last clear()
    openStack,           \* history: the groups opened and not yet closed, root first
    savedAt,             \* history: the paint state and scale seen by each unmatched save()
    nSet,                \* history: number of paint/scale mutations made so far
    canvasFont,          \* MockCanvasContext.font
    fontDesc,            \* history: the parts the canvas font was written from
    measured,            \* history: the last measurement, of the context or of the canvas
    mockCanvasInstance,  \* textMeasurement.ts: mockCanvasInstance (a MockCanvas, or Null)
    textMeasurementCanvas, \* the canvas installed by Element.setTextMeasurementCanvas
    nCanvases,           \* number of MockCanvas objects constructed so far
    lastSetup,           \* history: the last of the initialize/reset calls, or "none"
    parsed,              \* history: the last parseFontString call, its argument and result
    rendered             \* history: the last renderElementTree call, its arguments and result

ctxVars == <<nodes, parent, groups, groupAttributes, width, height, path, pen,
             attributes, state, stateStack, backgroundFillStyle, fontCSSString,
             nextElementKey, elementRegistry, classRegistry, thrown>>
histVars == <<lastOp, lastNode, made, opened, openStack, savedAt, nSet>>
canvasVars == <<canvasFont, fontDesc, measured>>
setupVars == <<mockCanvasInstance, textMeasurementCanvas, nCanvases, lastSetup>>
vars == <<ctxVars, histVars, canvasVars, setupVars, parsed, rendered>>

----------------------------------------------------------------------------
(* Bounds of the exploration *)

MaxNodes == 4        \* heap size explored by Spec (root included)
MaxPath == 1         \* path commands accumulated in the pending path
MaxSave == 2         \* depth of the save stack
MaxSet == 3          \* paint/scale mutations in one drawing sequence
MaxAttrNodes == 3    \* heap size explored by SpecAttr (root included)
MaxPathNodes == 4    \* heap size explored by SpecPath (root included)
MaxAttrSet == 1      \* paint mutations in one drawing sequence of SpecAttr
MaxDrawNodes == 3    \* heap size explored by SpecDraw (root included)
MaxDrawPath == 7     \* length of the pending path up to which SpecDraw extends it
MaxInkNodes == 3     \* heap size explored by SpecInk (root included)
MaxInkSet == 2       \* paint mutations in one drawing sequence of SpecInk
MaxTextNodes == 4    \* heap size explored by SpecText (root included)
MaxRectNodes == 3    \* heap size explored by SpecRect (root included)
MaxArcPath == 30     \* length of the pending path up to which SpecArc extends it
MaxScaleNodes == 2   \* heap size explored by SpecScale (root included)
MaxScaleSet == 2     \* scale() calls in one drawing sequence of SpecScale
MaxScale == 2        \* cumulative scale factor up to which SpecScale calls resize()
MaxScaleSave == 1    \* depth of the save stack in SpecScale
MaxSetNodes == 2     \* heap size explored by SpecSet (root included)
MaxSetCalls == 1     \* paint setter calls in one drawing sequence of SpecSet
MaxSetSave == 1      \* depth of the save stack in SpecSet
MaxRotateNodes == 3  \* heap size explored by SpecRotate (root included)
MaxMeasureSet == 1   \* setFont calls in one sequence of SpecMeasure
MaxCanvases == 3     \* MockCanvas objects constructed in one sequence of SpecSetup
MaxRenderNodes == 3  \* heap size explored by SpecRender (root included)
MaxGrowNodes == 3    \* heap size explored by SpecGrow (root included)

----------------------------------------------------------------------------
(* Values *)

Undefined == 0
svg == 1
NaN == "NaN"

\* Numbers are fixed point: FP units make 1.0, one decimal digit more than the
\* rendering precision keeps.
FP == 10000
Precision == 1000

Num(n) == n * FP

\* options.width ?? 500, options.height ?? 200
DefaultWidth == Num(500)
DefaultHeight == Num(200)

EmptyMap == [k \in {} |-> 0]
Has(obj, k) == k \in DOMAIN obj
\* map.get(k) ?? []
GetList(map, k) == IF k \in DOMAIN map THEN map[k] ELSE <<>>
\* obj[k] = v
Set(obj, k, v) == [x \in DOMAIN obj \cup {k} |-> IF x = k THEN v ELSE obj[x]]
\* { ...a, ...b }
Merge(a, b) == [x \in DOMAIN a \cup DOMAIN b |-> IF x \in DOMAIN b THEN b[x] ELSE a[x]]
Last(s) == s[Len(s)]
\* Array.prototype.pop: the array without its last element (empty stays empty)
Pop(s) == IF Len(s) = 0 THEN s ELSE SubSeq(s, 1, Len(s) - 1)
Range(s) == {s[i] : i \in DOMAIN s}

PROP_MAP ==
    [k \in {"font-family", "font-size", "font-weight", "font-style", "stroke-width",
            "stroke-dasharray", "stroke-linecap", "pointer-events", "class"} |->
        CASE k = "font-family" -> "fontFamily"
          [] k = "font-size" -> "fontSize"
          [] k = "font-weight" -> "fontWeight"
          [] k = "font-style" -> "fontStyle"
          [] k = "stroke-width" -> "strokeWidth"
          [] k = "stroke-dasharray" -> "strokeDasharray"
          [] k = "stroke-linecap" -> "strokeLinecap"
          [] k = "pointer-events" -> "pointerEvents"
          [] k = "class" -> "className"]

\* PROP_MAP[attrName] ?? attrName
PropName(attrName) == IF attrName \in DOMAIN PROP_MAP THEN PROP_MAP[attrName] ELSE attrName

FontAttrNames == {"font-family", "font-weight", "font-style", "font-size"}

\* ATTRIBUTES_TO_IGNORE[element.type] ?? {}
AttributesToIgnore(type) ==
    CASE type = "path" -> {"x", "y", "width", "height"} \cup FontAttrNames
      [] type = "rect" -> FontAttrNames
      [] type = "text" -> {"width", "height"}
      [] OTHER -> {}

\* a prefix() that stores the raw name
prefixNothing(name) == name

\* prefix(name): `vf-${name}`
prefix(name) == "vf-" \o name

\* this.round(n): Math.round(n * precision) / precision, halves rounded up
\* (n is in units of 1/FP, so n * precision is n / Ratio)
Ratio == FP \div Precision
round(n) == ((n + Ratio \div 2) \div Ratio) * Ratio

Digit(d) == CASE d = 0 -> "0" [] d = 1 -> "1" [] d = 2 -> "2" [] d = 3 -> "3" [] d = 4 -> "4"
              [] d = 5 -> "5" [] d = 6 -> "6" [] d = 7 -> "7" [] d = 8 -> "8" [] d = 9 -> "9"

RECURSIVE NatStr(_)
NatStr(n) == IF n < 10 THEN Digit(n) ELSE NatStr(n \div 10) \o Digit(n % 10)

\* the decimals of f/scale, without trailing zeros
RECURSIVE FracStr(_, _)
FracStr(f, scale) ==
    IF f = 0 THEN ""
    ELSE Digit((f * 10) \div scale) \o FracStr((f * 10) % scale, scale)

\* `${n}` for a number
NumStr(n) ==
    LET a == IF n < 0 THEN 0 - n ELSE n
        body == NatStr(a \div FP) \o
                (IF a % FP = 0 THEN "" ELSE "." \o FracStr(a % FP, FP))
    IN IF n < 0 THEN "-" \o body ELSE body

defaultFontAttributes ==
    [k \in FontAttrNames |->
        CASE k = "font-family" -> "Bravura, Academico, serif"
          [] k = "font-size" -> "10pt"
          [] k = "font-weight" -> "normal"
          [] k = "font-style" -> "normal"]

InitState == Merge([scaleX |-> Num(1), scaleY |-> Num(1)], defaultFontAttributes)

InitAttributes ==
    Merge([k \in {"stroke-width", "stroke-dasharray", "fill", "stroke"} |->
              CASE k = "stroke-width" -> Num(1)
                [] k = "stroke-dasharray" -> "none"
                [] k = "fill" -> "black"
                [] k = "stroke" -> "black"],
          defaultFontAttributes)

----------------------------------------------------------------------------
(* The context as one record, and the private helpers *)

Ctx ==
    [nodes |-> nodes, parent |-> parent, groups |-> groups,
     groupAttributes |-> groupAttributes, width |-> width, height |-> height,
     path |-> path, pen |-> pen, attributes |-> attributes, state |-> state,
     stateStack |-> stateStack, backgroundFillStyle |-> backgroundFillStyle,
     fontCSSString |-> fontCSSString, nextElementKey |-> nextElementKey,
     elementRegistry |-> elementRegistry, classRegistry |-> classRegistry,
     thrown |-> FALSE]

Commit(c) ==
    /\ nodes' = c.nodes
    /\ parent' = c.parent
    /\ groups' = c.groups
    /\ groupAttributes' = c.groupAttributes
    /\ width' = c.width
    /\ height' = c.height
    /\ path' = c.path
    /\ pen' = c.pen
    /\ attributes' = c.attributes
    /\ state' = c.state
    /\ stateStack' = c.stateStack
    /\ backgroundFillStyle' = c.backgroundFillStyle
    /\ fontCSSString' = c.fontCSSString
    /\ nextElementKey' = c.nextElementKey
    /\ elementRegistry' = c.elementRegistry
    /\ classRegistry' = c.classRegistry
    /\ thrown' = c.thrown
    /\ UNCHANGED <<canvasVars, setupVars, parsed, rendered>>

\* reading a property of `undefined` throws a TypeError; the call ends there
Throw(c) == [c EXCEPT !.thrown = TRUE]

\* the reference createElement returns in context c
NewRef(c) == Len(c.nodes) + 1

\* a createElement that reads the key without advancing it
createElementSameKey(c, type) ==
    [c EXCEPT !.nodes = Append(@, [type |-> type,
                                   props |-> [key |-> c.nextElementKey],
                                   children |-> <<>>])]

createElement(c, type) ==
    [c EXCEPT !.nodes = Append(@, [type |-> type,
                                   props |-> [key |-> c.nextElementKey],
                                   children |-> <<>>]),
              !.nextElementKey = @ + 1]

\* (element.props as any)[propName] = value
SetNodeProp(c, el, k, v) == [c EXCEPT !.nodes[el].props = Set(@, k, v)]

\* an applyAttributes that does not compare with the group's attributes
EmittedNamesNoElision(c, type, attrs) ==
    {a \in DOMAIN attrs : a \notin AttributesToIgnore(type)}

\* the attributes applyAttributes writes on an element of the given type
EmittedNames(c, type, attrs) ==
    {a \in DOMAIN attrs :
        /\ a \notin AttributesToIgnore(type)
        /\ ~ (/\ Len(c.groupAttributes) > 0
              /\ Has(Last(c.groupAttributes), a)
              /\ attrs[a] = Last(c.groupAttributes)[a])}

applyAttributes(c, el, attrs) ==
    LET names == EmittedNames(c, c.nodes[el].type, attrs)
        old == c.nodes[el].props
        written == {PropName(a) : a \in names}
    IN [c EXCEPT !.nodes[el].props =
            [p \in DOMAIN old \cup written |->
                IF p \in written
                THEN attrs[CHOOSE a \in names : PropName(a) = p]
                ELSE old[p]]]

\* this.parent.children.push(el)
\* the element put first among the children
PushChildFirst(c, el) == [c EXCEPT !.nodes[c.parent].children = <<el>> \o @]

PushChild(c, el) == [c EXCEPT !.nodes[c.parent].children = Append(@, el)]

\* a registration in which the first node registered under an id keeps it
RegisterFirstWins(c, el) ==
    LET n == c.nodes[el]
        c1 == IF Has(n, "id") /\ ~Has(c.elementRegistry, n.id)
              THEN [c EXCEPT !.elementRegistry = Set(@, n.id, el)] ELSE c
    IN IF Has(n, "className")
       THEN [c1 EXCEPT !.classRegistry =
                Set(@, n.className, Append(GetList(@, n.className), el))]
       ELSE c1

\* registration by id and by class name
Register(c, el) ==
    LET n == c.nodes[el]
        c1 == IF Has(n, "id") THEN [c EXCEPT !.elementRegistry = Set(@, n.id, el)] ELSE c
    IN IF Has(n, "className")
       THEN [c1 EXCEPT !.classRegistry =
                Set(@, n.className, Append(GetList(@, n.className), el))]
       ELSE c1

addElement(c, el) ==
    IF c.parent = Undefined THEN Throw(c) ELSE Register(PushChild(c, el), el)

----------------------------------------------------------------------------
(* The public methods *)

\* a clear() that forgets the class registry
clearWithoutClasses(c) ==
    [c EXCEPT !.nodes[svg].children = <<>>,
              !.elementRegistry = EmptyMap]

clear(c) ==
    [c EXCEPT !.nodes[svg].children = <<>>,
              !.elementRegistry = EmptyMap,
              !.classRegistry = EmptyMap]

\* a setFillStyle() that also writes the colour on the innermost group frame
setFillStyleOnFrame(c, style) ==
    [c EXCEPT !.attributes = Set(@, "fill", style),
              !.groupAttributes = IF Len(@) = 0 THEN @
                                  ELSE [@ EXCEPT ![Len(@)] = Set(@, "fill", style)]]

setFillStyle(c, style) == [c EXCEPT !.attributes = Set(@, "fill", style)]

setBackgroundFillStyle(c, style) == [c EXCEPT !.backgroundFillStyle = style]

setStrokeStyle(c, style) == [c EXCEPT !.attributes = Set(@, "stroke", style)]

\* a setShadowColor() that stores the colour with the paint attributes
setShadowColorStored(c, color) == [c EXCEPT !.attributes = Set(@, "shadow-color", color)]

setShadowColor(c, color) == c

setShadowBlur(c, blur) == c

setLineWidth(c, w) == [c EXCEPT !.attributes = Set(@, "stroke-width", w)]

setLineCap(c, capType) == [c EXCEPT !.attributes = Set(@, "stroke-linecap", capType)]

\* lineDash.join(',')
RECURSIVE Join(_)
Join(lineDash) ==
    IF Len(lineDash) = 0 THEN ""
    ELSE IF Len(lineDash) = 1 THEN NumStr(lineDash[1])
    ELSE NumStr(lineDash[1]) \o "," \o Join(Tail(lineDash))

setLineDash(c, lineDash) == [c EXCEPT !.attributes = Set(@, "stroke-dasharray", Join(lineDash))]

\* a * b and a / b on fixed-point numbers (a * b / FP and a * FP / b, computed
\* without leaving 32 bits)
Mul(a, b) == a * (b \div FP) + (a * (b % FP)) \div FP
Div(a, b) == (a \div b) * FP + ((a % b) * FP) \div b

\* a scale() that replaces the factors instead of multiplying them
scaleAbsolute(c, x, y) ==
    LET c1 == [c EXCEPT !.state = Set(Set(@, "scaleX", x), "scaleY", y)]
        visibleWidth == Div(c1.width, c1.state.scaleX)
        visibleHeight == Div(c1.height, c1.state.scaleY)
    IN SetNodeProp(c1, svg, "viewBox",
                   NumStr(0) \o " " \o NumStr(0) \o " " \o NumStr(visibleWidth)
                   \o " " \o NumStr(visibleHeight))

setViewBox(c, x, y, w, h) ==
    SetNodeProp(c, svg, "viewBox",
                NumStr(x) \o " " \o NumStr(y) \o " " \o NumStr(w) \o " " \o NumStr(h))

scale(c, x, y) ==
    LET c1 == [c EXCEPT !.state = Set(Set(@, "scaleX", Mul(c.state.scaleX, x)),
                                      "scaleY", Mul(c.state.scaleY, y))]
        visibleWidth == Div(c1.width, c1.state.scaleX)
        visibleHeight == Div(c1.height, c1.state.scaleY)
    IN setViewBox(c1, 0, 0, visibleWidth, visibleHeight)

resize(c, w, h) ==
    LET c1 == [c EXCEPT !.width = w, !.height = h]
        c2 == SetNodeProp(SetNodeProp(c1, svg, "width", w), svg, "height", h)
    IN scale(c2, c2.state.scaleX, c2.state.scaleY)

\* a rect() that takes the height as it is given
rectAsGiven(c, x0, y0, w, h0, attrs) ==
    LET c1 == createElement(c, "rect")
        el == NewRef(c)
        defaultAttrs == [k \in {"fill", "stroke-width", "stroke"} |->
                            CASE k = "fill" -> "none"
                              [] k = "stroke-width" -> c.attributes["stroke-width"]
                              [] k = "stroke" -> "black"]
        finalAttrs == Merge(defaultAttrs, attrs)
        c2 == SetNodeProp(SetNodeProp(SetNodeProp(SetNodeProp(c1,
                  el, "x", round(x0)), el, "y", round(y0)), el, "width", round(w)),
                  el, "height", round(h0))
    IN addElement(applyAttributes(c2, el, finalAttrs), el)

rect(c, x0, y0, w, h0, attrs) ==
    LET y == IF h0 < 0 THEN y0 + h0 ELSE y0
        h == IF h0 < 0 THEN h0 * (-1) ELSE h0
        c1 == createElement(c, "rect")
        el == NewRef(c)
        defaultAttrs == [k \in {"fill", "stroke-width", "stroke"} |->
                            CASE k = "fill" -> "none"
                              [] k = "stroke-width" -> c.attributes["stroke-width"]
                              [] k = "stroke" -> "black"]
        finalAttrs == Merge(defaultAttrs, attrs)
        c2 == SetNodeProp(SetNodeProp(SetNodeProp(SetNodeProp(c1,
                  el, "x", round(x0)), el, "y", round(y)), el, "width", round(w)),
                  el, "height", round(h))
    IN addElement(applyAttributes(c2, el, finalAttrs), el)

fillRect(c, x, y, w, h) ==
    rect(c, x, y, w, h, [k \in {"fill", "stroke"} |->
                            IF k = "fill" THEN c.attributes["fill"] ELSE "none"])

pointerRect(c, x, y, w, h) ==
    rect(c, x, y, w, h, [k \in {"opacity", "pointer-events"} |->
                            IF k = "opacity" THEN 0 ELSE "auto"])

clearRect(c, x, y, w, h) ==
    rect(c, x, y, w, h, [k \in {"fill", "stroke"} |->
                            IF k = "fill" THEN c.backgroundFillStyle ELSE "none"])

beginPath(c) == [c EXCEPT !.path = "", !.pen = [x |-> NaN, y |-> NaN]]

moveTo(c, x0, y0) ==
    LET x == round(x0)
        y == round(y0)
    IN [c EXCEPT !.path = @ \o "M" \o NumStr(x) \o " " \o NumStr(y),
                 !.pen = [x |-> x, y |-> y]]

lineTo(c, x0, y0) ==
    LET x == round(x0)
        y == round(y0)
    IN [c EXCEPT !.path = @ \o "L" \o NumStr(x) \o " " \o NumStr(y),
                 !.pen = [x |-> x, y |-> y]]

\* Angles are exact multiples of a quarter turn: the integer k is the angle
\* k * Math.PI / 2, of which Math.cos and Math.sin are 0, 1 or -1.
PI == 2
TWO_PI == 2 * PI

Cos(k) == CASE k % 4 = 0 -> FP [] k % 4 = 1 -> 0 [] k % 4 = 2 -> 0 - FP [] k % 4 = 3 -> 0
Sin(k) == Cos(k - 1)

\* a % b of JavaScript, which has the sign of a
Rem(a, b) == IF a >= 0 THEN a % b ELSE 0 - ((0 - a) % b)

Abs(a) == IF a < 0 THEN 0 - a ELSE a

\* +flag in a template literal
Flag(b) == IF b THEN "1" ELSE "0"

normalizeAngle(angle) ==
    LET r == Rem(angle, TWO_PI)
    IN IF r < 0 THEN r + TWO_PI ELSE r

\* a full-circle test that compares the span only, not the normalized angles
isFullCircleBySpanOnly(startAngle, endAngle, counterclockwise) ==
    \/ ~counterclockwise /\ endAngle - startAngle >= TWO_PI
    \/ counterclockwise /\ startAngle - endAngle >= TWO_PI

\* the condition of the full-circle branch of arc()
isFullCircle(startAngle, endAngle, counterclockwise) ==
    \/ ~counterclockwise /\ endAngle - startAngle >= TWO_PI
    \/ counterclockwise /\ startAngle - endAngle >= TWO_PI
    \/ normalizeAngle(startAngle) = normalizeAngle(endAngle)

\* an arc() whose sweep flag is the counterclockwise flag
sweepFlagSameAsCounterclockwise(counterclockwise) == counterclockwise

\* const sweep = !counterclockwise
sweepFlag(counterclockwise) == ~counterclockwise

\* the large-arc flag without the flip for a start after the end
largeArcBySpanOnly(normalizedStart, normalizedEnd, counterclockwise) ==
    IF Abs(normalizedEnd - normalizedStart) < PI
    THEN counterclockwise ELSE ~counterclockwise

\* let large: by the span of the normalized angles, flipped when the
\* normalized start is greater than the normalized end
largeArc(normalizedStart, normalizedEnd, counterclockwise) ==
    LET large == IF Abs(normalizedEnd - normalizedStart) < PI
                 THEN counterclockwise ELSE ~counterclockwise
    IN IF normalizedStart > normalizedEnd THEN ~large ELSE large

arc(c, x, y, radius0, startAngle, endAngle, counterclockwise) ==
    LET x0 == round(x + Mul(radius0, Cos(startAngle)))
        y0 == round(y + Mul(radius0, Sin(startAngle)))
        tmpStartTest == normalizeAngle(startAngle)
        tmpEndTest == normalizeAngle(endAngle)
        radius == NumStr(round(radius0))
    IN IF isFullCircle(startAngle, endAngle, counterclockwise)
       THEN LET x1 == round(x + Mul(radius0, Cos(startAngle + PI)))
                y1 == round(y + Mul(radius0, Sin(startAngle + PI)))
            IN [c EXCEPT !.path = @ \o "M" \o NumStr(x0) \o " " \o NumStr(y0)
                                    \o " A" \o radius \o " " \o radius \o " 0 0 0 "
                                    \o NumStr(x1) \o " " \o NumStr(y1) \o " "
                                    \o "A" \o radius \o " " \o radius \o " 0 0 0 "
                                    \o NumStr(x0) \o " " \o NumStr(y0),
                         !.pen = [x |-> x0, y |-> y0]]
       ELSE LET x1 == round(x + Mul(radius0, Cos(endAngle)))
                y1 == round(y + Mul(radius0, Sin(endAngle)))
                large == largeArc(tmpStartTest, tmpEndTest, counterclockwise)
                sweep == sweepFlag(counterclockwise)
            IN [c EXCEPT !.path = @ \o "M" \o NumStr(x0) \o " " \o NumStr(y0)
                                    \o " A" \o radius \o " " \o radius \o " 0 "
                                    \o Flag(large) \o " " \o Flag(sweep) \o " "
                                    \o NumStr(x1) \o " " \o NumStr(y1),
                         !.pen = [x |-> x1, y |-> y1]]

closePath(c) == [c EXCEPT !.path = @ \o "Z"]

\* a fill() that starts a new path once the node is appended
fillThenBeginPath(c) ==
    LET c1 == createElement(c, "path")
        el == NewRef(c)
        attrs == Set(Set(c.attributes, "stroke", "none"), "d", c.path)
    IN beginPath(addElement(applyAttributes(c1, el, attrs), el))

\* fill() without an argument
fill(c) ==
    LET c1 == createElement(c, "path")
        el == NewRef(c)
        attrs == Set(Set(c.attributes, "stroke", "none"), "d", c.path)
    IN addElement(applyAttributes(c1, el, attrs), el)

\* fill(attributes) with the caller's attribute object
fillWith(c, given) ==
    LET c1 == createElement(c, "path")
        el == NewRef(c)
        attrs == Set(given, "d", c.path)
    IN addElement(applyAttributes(c1, el, attrs), el)

\* a stroke() that keeps the current fill colour
strokeWithFill(c) ==
    LET c1 == createElement(c, "path")
        el == NewRef(c)
        attrs == Set(c.attributes, "d", c.path)
    IN addElement(applyAttributes(c1, el, attrs), el)

stroke(c) ==
    LET c1 == createElement(c, "path")
        el == NewRef(c)
        attrs == Set(Set(c.attributes, "fill", "none"), "d", c.path)
    IN addElement(applyAttributes(c1, el, attrs), el)

\* a fillText() that makes a node for the empty string too
fillTextAlways(c, text, x0, y0) ==
    LET c1 == createElement(c, "text")
        el == NewRef(c)
        c2 == [c1 EXCEPT !.nodes[el] = @ @@ [textContent |-> text]]
        c3 == SetNodeProp(SetNodeProp(c2, el, "x", round(x0)), el, "y", round(y0))
        attrs == Set(c.attributes, "stroke", "none")
    IN addElement(applyAttributes(c3, el, attrs), el)

fillText(c, text, x0, y0) ==
    IF Len(text) = 0 THEN c
    ELSE LET c1 == createElement(c, "text")
             el == NewRef(c)
             c2 == [c1 EXCEPT !.nodes[el] = @ @@ [textContent |-> text]]
             c3 == SetNodeProp(SetNodeProp(c2, el, "x", round(x0)), el, "y", round(y0))
             attrs == Set(c.attributes, "stroke", "none")
         IN addElement(applyAttributes(c3, el, attrs), el)

\* what save() pushes
Snapshot(c) == [state |-> c.state, attributes |-> c.attributes]

save(c) == [c EXCEPT !.stateStack = Append(@, Snapshot(c))]

\* a restore() that merges the snapshot into the current attributes
MergedAttributes(c, saved) == Merge(c.attributes, saved.attributes)

\* this.attributes after restore() popped `saved`
RestoredAttributes(c, saved) == saved.attributes

\* a restore() that goes back to the constructor's paint state when nothing
\* is saved
restoreOrReset(c) ==
    IF Len(c.stateStack) = 0
    THEN [c EXCEPT !.state = InitState, !.attributes = InitAttributes]
    ELSE LET saved == Last(c.stateStack)
         IN [c EXCEPT !.stateStack = Pop(@),
                      !.state = saved.state,
                      !.attributes = RestoredAttributes(c, saved)]

restore(c) ==
    IF Len(c.stateStack) = 0 THEN c
    ELSE LET saved == Last(c.stateStack)
         IN [c EXCEPT !.stateStack = Pop(@),
                      !.state = saved.state,
                      !.attributes = RestoredAttributes(c, saved)]

\* the labels openGroup stores on the group and on its props
Labelled(c, el, cls, id) ==
    LET c1 == IF cls # ""
              THEN SetNodeProp([c EXCEPT !.nodes[el] = @ @@ [className |-> prefix(cls)]],
                               el, "className", prefix(cls))
              ELSE c
    IN IF id # ""
       THEN SetNodeProp([c1 EXCEPT !.nodes[el] = @ @@ [id |-> prefix(id)]],
                        el, "id", prefix(id))
       ELSE c1

\* the frame openGroup pushes on groupAttributes
GroupFrame(c) ==
    Merge(IF Len(c.groupAttributes) = 0 THEN EmptyMap ELSE Last(c.groupAttributes),
          c.attributes)

openGroup(c, cls, id) ==
    LET group == NewRef(c)
        c1 == Labelled(createElement(c, "g"), group, cls, id)
        c2 == [c1 EXCEPT !.groups = Append(@, group)]
    IN IF c2.parent = Undefined THEN Throw(c2)
       ELSE LET c3 == [PushChild(c2, group) EXCEPT !.parent = group]
                c4 == applyAttributes(c3, group, c3.attributes)
                c5 == [c4 EXCEPT !.groupAttributes = Append(@, GroupFrame(c4))]
            IN Register(c5, group)

closeGroup(c) ==
    LET left == Pop(c.groups)
    IN [c EXCEPT !.groups = left,
                 !.groupAttributes = Pop(@),
                 !.parent = IF Len(left) = 0 THEN Undefined ELSE Last(left)]

openRotation(c, angleDegrees, x, y) ==
    LET c1 == openGroup(c, "", "")
        group == NewRef(c)
    IN IF c1.thrown THEN c1
       ELSE SetNodeProp(c1, group, "transform",
                "translate(" \o NumStr(x) \o "," \o NumStr(y) \o ") rotate("
                \o NumStr(angleDegrees) \o ") translate(-" \o NumStr(x) \o ",-"
                \o NumStr(y) \o ")")

closeRotation(c) == closeGroup(c)

\* add(child) with a node object the caller made
add(c, child) ==
    IF c.parent = Undefined THEN Throw(c)
    ELSE PushChild([c EXCEPT !.nodes = Append(@, child)], NewRef(c))

\* Font.toCSSString of a validated FontInfo (vexflow)
toCSSString(fontInfo) ==
    (IF fontInfo.style = "normal" \/ fontInfo.style = "" THEN "" ELSE fontInfo.style \o " ")
    \o (IF fontInfo.weight = "normal" \/ fontInfo.weight = "" THEN "" ELSE fontInfo.weight \o " ")
    \o fontInfo.size \o " " \o fontInfo.family

\* setFont called with a FontInfo that Font.validate returns unchanged
setFont(c, fontInfo) ==
    LET fontAttributes == [k \in FontAttrNames |->
                              CASE k = "font-family" -> fontInfo.family
                                [] k = "font-size" -> fontInfo.size
                                [] k = "font-weight" -> fontInfo.weight
                                [] k = "font-style" -> fontInfo.style]
    IN [c EXCEPT !.fontCSSString = toCSSString(fontInfo),
                 !.attributes = Merge(@, fontAttributes),
                 !.state = Merge(@, fontAttributes)]

getFont(c) == c.fontCSSString

\* set fillStyle(style), set strokeStyle(style)
fillStyleSetter(c, style) == setFillStyle(c, style)
strokeStyleSetter(c, style) == setStrokeStyle(c, style)

getElementsByClassName(c, className) == GetList(c.classRegistry, prefix(className))

----------------------------------------------------------------------------
(* Text measurement (src/src/textMeasurement.ts)                           *)
(*                                                                         *)
(* A font description is the sequence of its characters, a text is the     *)
(* sequence of its UTF-16 code units.  Pixel sizes are fixed point numbers *)
(* (FP units make one pixel); the ratios of FONT_METRICS are in hundredths *)
(* and the advance widths in thousandths of a staff space, as the source   *)
(* writes them, and a metric is an integer in units of 1/MetricUnit pixel, *)
(* exact for sizes of at most one decimal.                                 *)

MetricUnit == FP * 100

FONT_METRICS ==
    [family \in {<<"b", "r", "a", "v", "u", "r", "a">>,
                <<"p", "e", "t", "a", "l", "u", "m", "a">>,
                <<"g", "o", "n", "v", "i", "l", "l", "e">>,
                <<"l", "e", "l", "a", "n", "d">>,
                <<"a", "c", "a", "d", "e", "m", "i", "c", "o">>,
                <<"a", "r", "i", "a", "l">>,
                <<"t", "i", "m", "e", "s", " ", "n", "e", "w", " ", "r", "o", "m", "a", "n">>,
                <<"s", "e", "r", "i", "f">>,
                <<"s", "a", "n", "s", "-", "s", "e", "r", "i", "f">>,
                <<"d", "e", "f", "a", "u", "l", "t">>} |->
        CASE family = <<"b", "r", "a", "v", "u", "r", "a">> ->
                [avgCharWidth |-> 25, ascent |-> 80, descent |-> 20, isMusicFont |-> TRUE]
          [] family = <<"p", "e", "t", "a", "l", "u", "m", "a">> ->
                [avgCharWidth |-> 25, ascent |-> 80, descent |-> 20, isMusicFont |-> TRUE]
          [] family = <<"g", "o", "n", "v", "i", "l", "l", "e">> ->
                [avgCharWidth |-> 25, ascent |-> 80, descent |-> 20, isMusicFont |-> TRUE]
          [] family = <<"l", "e", "l", "a", "n", "d">> ->
                [avgCharWidth |-> 25, ascent |-> 80, descent |-> 20, isMusicFont |-> TRUE]
          [] family = <<"a", "c", "a", "d", "e", "m", "i", "c", "o">> ->
                [avgCharWidth |-> 55, ascent |-> 80, descent |-> 20, isMusicFont |-> FALSE]
          [] family = <<"a", "r", "i", "a", "l">> ->
                [avgCharWidth |-> 52, ascent |-> 76, descent |-> 24, isMusicFont |-> FALSE]
          [] family = <<"t", "i", "m", "e", "s", " ", "n", "e", "w", " ", "r", "o", "m", "a", "n">> ->
                [avgCharWidth |-> 48, ascent |-> 78, descent |-> 22, isMusicFont |-> FALSE]
          [] family = <<"s", "e", "r", "i", "f">> ->
                [avgCharWidth |-> 50, ascent |-> 78, descent |-> 22, isMusicFont |-> FALSE]
          [] family = <<"s", "a", "n", "s", "-", "s", "e", "r", "i", "f">> ->
                [avgCharWidth |-> 52, ascent |-> 76, descent |-> 24, isMusicFont |-> FALSE]
          [] family = <<"d", "e", "f", "a", "u", "l", "t">> ->
                [avgCharWidth |-> 55, ascent |-> 80, descent |-> 20, isMusicFont |-> FALSE]]

\* SMUFL_GLYPH_ADVANCE_WIDTHS (smuflGlyphWidths.ts), the glyphs measured here
accidentalSharp == 57954        \* ''
accidentalBracketLeft == 57966  \* ''
gClef == 57424                  \* ''
stem == 57872                   \* ''
SMUFL_GLYPH_ADVANCE_WIDTHS ==
    (accidentalSharp :> 996) @@ (accidentalBracketLeft :> 308) @@ (gClef :> 2684)
    @@ (stem :> 0)

isSmuflGlyph(code) == code >= 57344 /\ code <= 63743

UpperCase == <<"A", "B", "C", "D", "E", "F", "G", "H", "I", "J", "K", "L", "M",
               "N", "O", "P", "Q", "R", "S", "T", "U", "V", "W", "X", "Y", "Z">>
LowerCase == <<"a", "b", "c", "d", "e", "f", "g", "h", "i", "j", "k", "l", "m",
               "n", "o", "p", "q", "r", "s", "t", "u", "v", "w", "x", "y", "z">>

toLowerCase(str) ==
    [i \in 1..Len(str) |->
        IF \E k \in 1..26 : UpperCase[k] = str[i]
        THEN LowerCase[CHOOSE k \in 1..26 : UpperCase[k] = str[i]]
        ELSE str[i]]

IsSpace(ch) == ch = " "
IsDigit(ch) == ch \in {"0", "1", "2", "3", "4", "5", "6", "7", "8", "9"}
DigitValue(ch) == CHOOSE d \in 0..9 : Digit(d) = ch

\* str.trim()
RECURSIVE trim(_)
trim(str) ==
    IF Len(str) = 0 THEN str
    ELSE IF IsSpace(str[1]) THEN trim(Tail(str))
    ELSE IF IsSpace(str[Len(str)]) THEN trim(SubSeq(str, 1, Len(str) - 1))
    ELSE str

\* str.split(',')[0]
FirstOfList(str) ==
    IF \E i \in 1..Len(str) : str[i] = ","
    THEN SubSeq(str, 1, (CHOOSE i \in 1..Len(str) :
                            str[i] = "," /\ \A j \in 1..(i - 1) : str[j] # ",") - 1)
    ELSE str

getFontMetrics(fontFamily) ==
    LET normalizedFamily == trim(FirstOfList(toLowerCase(fontFamily)))
    IN IF normalizedFamily \in DOMAIN FONT_METRICS
       THEN FONT_METRICS[normalizedFamily]
       ELSE FONT_METRICS[<<"d", "e", "f", "a", "u", "l", "t">>]

\* the index where the run of digits that starts at i ends
DigitsEnd(str, i) ==
    CHOOSE j \in i..Len(str) :
        /\ \A k \in i..j : IsDigit(str[k])
        /\ j = Len(str) \/ ~IsDigit(str[j + 1])

\* the first index from i on that holds no white space
SkipSpaces(str, i) ==
    CHOOSE u \in i..(Len(str) + 1) :
        /\ \A k \in i..(u - 1) : IsSpace(str[k])
        /\ u = Len(str) + 1 \/ ~IsSpace(str[u])

RECURSIVE FractionValue(_, _)
FractionValue(digits, unit) ==
    IF Len(digits) = 0 \/ unit = 1 THEN 0
    ELSE DigitValue(digits[1]) * (unit \div 10) + FractionValue(Tail(digits), unit \div 10)

RECURSIVE NaturalValue(_)
NaturalValue(digits) ==
    IF Len(digits) = 0 THEN 0
    ELSE NaturalValue(SubSeq(digits, 1, Len(digits) - 1)) * 10
         + DigitValue(digits[Len(digits)])

\* parseFloat(str) for an unsigned decimal numeral at the start of str
parseFloat(str) ==
    LET s == SubSeq(str, SkipSpaces(str, 1), Len(str))
    IN IF Len(s) = 0 \/ ~IsDigit(s[1]) THEN NaN
       ELSE LET j == DigitsEnd(s, 1)
                hasFraction == j + 2 <= Len(s) /\ s[j + 1] = "." /\ IsDigit(s[j + 2])
            IN NaturalValue(SubSeq(s, 1, j)) * FP
               + (IF hasFraction
                  THEN FractionValue(SubSeq(s, j + 2, DigitsEnd(s, j + 2)), FP)
                  ELSE 0)

SizeUnits == {<<"p", "x">>, <<"p", "t">>, <<"e", "m">>}

\* font.match(/(\d+(?:\.\d+)?)\s*(px|pt|em)?/i): the leftmost numeral and the
\* unit that follows it
SizeMatch(font) ==
    LET i == CHOOSE n \in 1..Len(font) :
                 IsDigit(font[n]) /\ \A k \in 1..(n - 1) : ~IsDigit(font[k])
        j == DigitsEnd(font, i)
        e == IF j + 2 <= Len(font) /\ font[j + 1] = "." /\ IsDigit(font[j + 2])
             THEN DigitsEnd(font, j + 2) ELSE j
        u == SkipSpaces(font, e + 1)
        next == IF u + 1 <= Len(font) THEN toLowerCase(SubSeq(font, u, u + 1)) ELSE <<>>
    IN [number |-> SubSeq(font, i, e),
        unit |-> IF next \in SizeUnits THEN next ELSE <<"p", "t">>]

parseFontSize(font) ==
    IF \E n \in 1..Len(font) : IsDigit(font[n])
    THEN LET match == SizeMatch(font)
             size == parseFloat(match.number)
         IN CASE match.unit = <<"p", "x">> -> size
              [] match.unit = <<"p", "t">> -> Mul(13330, size)
              [] match.unit = <<"e", "m">> -> size * 16
    ELSE Num(10)

\* font.split(/\s+/) of a description without leading or trailing white space
RECURSIVE Words(_)
Words(str) ==
    IF Len(str) = 0 THEN <<>>
    ELSE IF IsSpace(str[1]) THEN Words(Tail(str))
    ELSE LET e == CHOOSE j \in 1..Len(str) :
                      /\ \A k \in 1..j : ~IsSpace(str[k])
                      /\ j = Len(str) \/ IsSpace(str[j + 1])
         IN <<SubSeq(str, 1, e)>> \o Words(SubSeq(str, e + 1, Len(str)))

\* parts.join(' ')
RECURSIVE JoinWords(_)
JoinWords(parts) ==
    IF Len(parts) = 0 THEN <<>>
    ELSE IF Len(parts) = 1 THEN parts[1]
    ELSE parts[1] \o <<" ">> \o JoinWords(Tail(parts))

\* /\d+(px|pt|em)/i.test(part)
HasSize(part) ==
    \E p \in 1..(Len(part) - 2) :
        IsDigit(part[p]) /\ toLowerCase(SubSeq(part, p + 1, p + 2)) \in SizeUnits

\* str.replace(/["']/g, '')
StripQuotes(str) == SelectSeq(str, LAMBDA ch : ch \notin {"\"", "'"})

parseFontFamily(font) ==
    LET parts == Words(font)
        family ==
            IF \E i \in 1..Len(parts) : HasSize(parts[i])
            THEN LET i == CHOOSE n \in 1..Len(parts) :
                              HasSize(parts[n]) /\ \A k \in 1..(n - 1) : ~HasSize(parts[k])
                 IN StripQuotes(JoinWords(SubSeq(parts, i + 1, Len(parts))))
            ELSE StripQuotes(font)
    IN IF Len(family) = 0 THEN <<"s", "e", "r", "i", "f">> ELSE family

IsHighSurrogate(code) == code >= 55296 /\ code <= 56319
IsLowSurrogate(code) == code >= 56320 /\ code <= 57343

\* a measureSmuflText() that gives every character outside the reserved range
\* the quarter of the pixel size that the symbolic families have as average
RECURSIVE measureSmuflTextByFamilyRatio(_, _)
measureSmuflTextByFamilyRatio(text, fontSizeInPixels) ==
    IF Len(text) = 0 THEN 0
    ELSE LET code == text[1]
             paired == /\ IsHighSurrogate(code)
                       /\ Len(text) >= 2
                       /\ IsLowSurrogate(text[2])
             rest == SubSeq(text, IF paired THEN 3 ELSE 2, Len(text))
         IN (IF isSmuflGlyph(code)
             THEN IF code \in DOMAIN SMUFL_GLYPH_ADVANCE_WIDTHS
                  THEN (SMUFL_GLYPH_ADVANCE_WIDTHS[code] * fontSizeInPixels) \div 40
                  ELSE 25 * fontSizeInPixels
             ELSE 25 * fontSizeInPixels)
            + measureSmuflTextByFamilyRatio(rest, fontSizeInPixels)

\* for (const char of text) takes the text one code point at a time, and
\* char.charCodeAt(0) is the first code unit of the code point
RECURSIVE measureSmuflText(_, _)
measureSmuflText(text, fontSizeInPixels) ==
    IF Len(text) = 0 THEN 0
    ELSE LET code == text[1]
             paired == /\ IsHighSurrogate(code)
                       /\ Len(text) >= 2
                       /\ IsLowSurrogate(text[2])
             rest == SubSeq(text, IF paired THEN 3 ELSE 2, Len(text))
         IN (IF isSmuflGlyph(code)
             THEN IF code \in DOMAIN SMUFL_GLYPH_ADVANCE_WIDTHS
                  THEN (SMUFL_GLYPH_ADVANCE_WIDTHS[code] * fontSizeInPixels) \div 40
                  ELSE 25 * fontSizeInPixels
             ELSE 55 * fontSizeInPixels)
            + measureSmuflText(rest, fontSizeInPixels)

\* a branch selection that looks at the last character of the text
usesGlyphWidthsByLastChar(metrics, text) ==
    metrics.isMusicFont /\ Len(text) > 0 /\ isSmuflGlyph(text[Len(text)])

\* metrics.isMusicFont && text.length > 0 && isSmuflGlyph(text[0])
usesGlyphWidths(metrics, text) ==
    metrics.isMusicFont /\ Len(text) > 0 /\ isSmuflGlyph(text[1])

\* MockCanvasContext.measureText with this.font = font
MockCanvasContext_measureText(font, text) ==
    LET fontSize == parseFontSize(font)
        fontFamily == parseFontFamily(font)
        metrics == getFontMetrics(fontFamily)
        textWidth == IF usesGlyphWidths(metrics, text)
                     THEN measureSmuflText(text, fontSize)
                     ELSE Len(text) * fontSize * metrics.avgCharWidth
        ascent == fontSize * metrics.ascent
        descent == fontSize * metrics.descent
    IN [width |-> textWidth,
        actualBoundingBoxLeft |-> 0,
        actualBoundingBoxRight |-> textWidth,
        actualBoundingBoxAscent |-> ascent,
        actualBoundingBoxDescent |-> descent,
        fontBoundingBoxAscent |-> ascent,
        fontBoundingBoxDescent |-> descent,
        alphabeticBaseline |-> 0,
        emHeightAscent |-> ascent,
        emHeightDescent |-> descent]

\* the characters of the strings the paint state holds for the font
Characters(str) ==
    CASE str = "10pt" -> <<"1", "0", "p", "t">>
      [] str = "10" -> <<"1", "0">>
      [] str = "12pt" -> <<"1", "2", "p", "t">>
      [] str = "Arial" -> <<"A", "r", "i", "a", "l">>
      [] str = "Bravura, Academico, serif" -> <<"B", "r", "a", "v", "u", "r", "a", ",", " ", "A", "c", "a", "d", "e", "m", "i", "c", "o", ",", " ", "s", "e", "r", "i", "f">>

\* ReactNativeSVGContext.measureText
measureText(c, text) ==
    LET fontSize == parseFloat(Characters(IF Has(c.attributes, "font-size")
                                          THEN c.attributes["font-size"] ELSE "10"))
        avgCharWidth == Mul(fontSize, 6000)
        textWidth == Len(text) * avgCharWidth
        textHeight == Mul(fontSize, 12000)
    IN [x |-> 0, y |-> 0 - fontSize, width |-> textWidth, height |-> textHeight]

----------------------------------------------------------------------------
(* parseFontString (fonts.ts) *)

\* the loop that cuts the trimmed shorthand at the spaces outside quotes:
\* the parts, after the characters from i on are read
RECURSIVE SplitOutsideQuotes(_, _, _, _, _, _)
SplitOutsideQuotes(str, i, current, inQuotes, quoteChar, parts) ==
    IF i > Len(str)
    THEN IF Len(current) > 0 THEN Append(parts, current) ELSE parts
    ELSE LET char == str[i]
         IN IF (char = "\"" \/ char = "'") /\ ~inQuotes
            THEN SplitOutsideQuotes(str, i + 1, Append(current, char), TRUE, char, parts)
            ELSE IF char = quoteChar /\ inQuotes
            THEN SplitOutsideQuotes(str, i + 1, Append(current, char), FALSE, quoteChar,
                                    parts)
            ELSE IF char = " " /\ ~inQuotes
            THEN IF Len(current) > 0
                 THEN SplitOutsideQuotes(str, i + 1, <<>>, inQuotes, quoteChar,
                                         Append(parts, current))
                 ELSE SplitOutsideQuotes(str, i + 1, current, inQuotes, quoteChar, parts)
            ELSE SplitOutsideQuotes(str, i + 1, Append(current, char), inQuotes, quoteChar,
                                    parts)

FontSizeUnits == {<<"p", "t">>, <<"p", "x">>, <<"e", "m">>, <<"%">>, <<"r", "e", "m">>, <<"v", "h">>, <<"v", "w">>}

\* /^(\d+(?:\.\d+)?)(pt|px|em|%|rem|vh|vw)$/i.test(part)
sizeRegex(part) ==
    /\ Len(part) > 0
    /\ IsDigit(part[1])
    /\ LET j == DigitsEnd(part, 1)
           e == IF j + 2 <= Len(part) /\ part[j + 1] = "." /\ IsDigit(part[j + 2])
                THEN DigitsEnd(part, j + 2) ELSE j
       IN toLowerCase(SubSeq(part, e + 1, Len(part))) \in FontSizeUnits

\* /^\d{3}$/.test(part)
ThreeDigits(part) == Len(part) = 3 /\ \A i \in 1..3 : IsDigit(part[i])

\* the loop over the parts before the size: the style and the weight after
\* the parts from i on are read
RECURSIVE StyleAndWeight(_, _, _, _, _)
StyleAndWeight(parts, i, sizeIndex, style, weight) ==
    IF i >= sizeIndex THEN [style |-> style, weight |-> weight]
    ELSE LET part == toLowerCase(parts[i])
         IN IF part = <<"i", "t", "a", "l", "i", "c">> \/ part = <<"o", "b", "l", "i", "q", "u", "e">>
            THEN StyleAndWeight(parts, i + 1, sizeIndex, part, weight)
            ELSE IF part = <<"b", "o", "l", "d">> \/ ThreeDigits(part)
            THEN StyleAndWeight(parts, i + 1, sizeIndex, style, parts[i])
            ELSE StyleAndWeight(parts, i + 1, sizeIndex, style, weight)

\* the size is the part of index sizeIndex, counted from 1; 0 is the -1 of
\* the source
parseFontString(cssFontShorthand) ==
    LET trimmed == trim(cssFontShorthand)
        parts == SplitOutsideQuotes(trimmed, 1, <<>>, FALSE, "", <<>>)
        sizeIndex == IF \E i \in 1..Len(parts) : sizeRegex(parts[i])
                     THEN CHOOSE i \in 1..Len(parts) :
                              sizeRegex(parts[i]) /\ \A k \in 1..(i - 1) : ~sizeRegex(parts[k])
                     ELSE 0
        before == StyleAndWeight(parts, 1, sizeIndex, <<"n", "o", "r", "m", "a", "l">>, <<"n", "o", "r", "m", "a", "l">>)
    IN IF Len(trimmed) = 0
       THEN [family |-> <<"A", "r", "i", "a", "l">>, size |-> <<"1", "0", "p", "t">>, weight |-> <<"n", "o", "r", "m", "a", "l">>, style |-> <<"n", "o", "r", "m", "a", "l">>]
       ELSE [family |-> IF sizeIndex >= 1 /\ sizeIndex < Len(parts)
                        THEN StripQuotes(JoinWords(SubSeq(parts, sizeIndex + 1, Len(parts))))
                        ELSE <<"A", "r", "i", "a", "l">>,
             size |-> IF sizeIndex >= 1 THEN parts[sizeIndex] ELSE <<"1", "0", "p", "t">>,
             weight |-> before.weight,
             style |-> before.style]

----------------------------------------------------------------------------
(* renderElementTree (VexFlowScore.tsx) *)

\* the propMap of convertAttributesToProps
propMap ==
    [k \in {"font-family", "font-size", "font-weight", "font-style", "stroke-width",
            "stroke-dasharray", "stroke-linecap", "pointer-events"} |->
        CASE k = "font-family" -> "fontFamily"
          [] k = "font-size" -> "fontSize"
          [] k = "font-weight" -> "fontWeight"
          [] k = "font-style" -> "fontStyle"
          [] k = "stroke-width" -> "strokeWidth"
          [] k = "stroke-dasharray" -> "strokeDasharray"
          [] k = "stroke-linecap" -> "strokeLinecap"
          [] k = "pointer-events" -> "pointerEvents"]

\* the entries of attrs under propMap[key] ?? key; of two entries written
\* to one prop the object keeps the later one, and the attribute objects
\* here never hold two such entries
convertAttributesToProps(attrs) ==
    LET propNameOf(key) == IF key \in DOMAIN propMap THEN propMap[key] ELSE key
    IN [propName \in {propNameOf(key) : key \in DOMAIN attrs} |->
           attrs[CHOOSE key \in DOMAIN attrs : propNameOf(key) = propName]]

\* node.id and node.className as conditions
Truthy(node, k) == Has(node, k) /\ node[k] # ""

\* the props of the element made for a node, the id styles being applied
\* before the class styles
renderPropsClassOverId(node, elementStyles, classStyles, onElementPress) ==
    LET props1 == IF Truthy(node, "id") /\ Has(elementStyles, node.id)
                  THEN convertAttributesToProps(elementStyles[node.id]) @@ node.props
                  ELSE node.props
        props2 == IF Truthy(node, "className") /\ Has(classStyles, node.className)
                  THEN convertAttributesToProps(classStyles[node.className]) @@ props1
                  ELSE props1
    IN IF onElementPress /\ (Truthy(node, "id") \/ Truthy(node, "className"))
       THEN [onPress |-> [k \in {"id", "className"} \cap DOMAIN node |-> node[k]]] @@ props2
       ELSE props2

\* the props of the element made for a node: the node's props, the class
\* styles over them, the id styles over these, and the press handler, which
\* is written as the node's id and className that it passes to onElementPress.
\* Styles that are not given apply as the empty object does.
renderProps(node, elementStyles, classStyles, onElementPress) ==
    LET props1 == IF Truthy(node, "className") /\ Has(classStyles, node.className)
                  THEN convertAttributesToProps(classStyles[node.className]) @@ node.props
                  ELSE node.props
        props2 == IF Truthy(node, "id") /\ Has(elementStyles, node.id)
                  THEN convertAttributesToProps(elementStyles[node.id]) @@ props1
                  ELSE props1
    IN IF onElementPress /\ (Truthy(node, "id") \/ Truthy(node, "className"))
       THEN [onPress |-> [k \in {"id", "className"} \cap DOMAIN node |-> node[k]]] @@ props2
       ELSE props2

\* the react-native-svg component of a node type
Component(type) ==
    CASE type = "svg" -> "Svg"
      [] type = "g" -> "G"
      [] type = "path" -> "Path"
      [] type = "rect" -> "Rect"
      [] type = "text" -> "SvgText"
      [] OTHER -> "G"

\* the element made for the node n of the tree ns
RECURSIVE renderElementTree(_, _, _, _, _)
renderElementTree(ns, n, elementStyles, classStyles, onElementPress) ==
    LET node == ns[n]
        children == [i \in 1..Len(node.children) |->
                        renderElementTree(ns, node.children[i], elementStyles, classStyles,
                                          onElementPress)]
    IN [type |-> Component(node.type),
        props |-> renderProps(node, elementStyles, classStyles, onElementPress),
        children |-> IF node.type = "text"
                     THEN (IF Has(node, "textContent") THEN <<node.textContent>> ELSE <<>>)
                     ELSE children]

----------------------------------------------------------------------------
(* The installation of the mock canvas (textMeasurement.ts) *)

\* The MockCanvas objects are numbered in the order of their construction;
\* Null is the null of mockCanvasInstance and the canvas of a host library
\* that was given none.
Null == 0

\* the module state of textMeasurement.ts and the canvas of the host library
Setup ==
    [mockCanvasInstance |-> mockCanvasInstance,
     textMeasurementCanvas |-> textMeasurementCanvas,
     nCanvases |-> nCanvases]

\* an initializeTextMeasurement() that constructs a MockCanvas at every call
initializeWithNewCanvas(m) ==
    [m EXCEPT !.nCanvases = @ + 1,
              !.mockCanvasInstance = m.nCanvases + 1,
              !.textMeasurementCanvas = m.nCanvases + 1]

initializeTextMeasurement(m) ==
    LET m1 == IF m.mockCanvasInstance = Null
              THEN [m EXCEPT !.nCanvases = @ + 1, !.mockCanvasInstance = m.nCanvases + 1]
              ELSE m
    IN [m1 EXCEPT !.textMeasurementCanvas = m1.mockCanvasInstance]

isTextMeasurementInitialized(m) == m.mockCanvasInstance # Null

resetTextMeasurement(m) == [m EXCEPT !.mockCanvasInstance = Null]

----------------------------------------------------------------------------
(* Inputs *)

Labels == {<<"", "">>, <<"note", "0">>}
Texts == {"", "A"}
Colors == {"red"}
DrawColors == {"red", "none"}
\* arc(50, 50, 25, a0, a1, ccw) with a0 and a1 from -2 pi to 5 pi / 2
ArcCentre == <<Num(50), Num(50)>>
ArcRadius == Num(25)
ArcAngles == {0 - 4, 0 - 1, 0, 1, 2, 4, 5}
\* rect(0, 0, 10, 10), rect(10, 50, 20, -30) and rect(0, 10.0004, 10, -5.0008)
RectArgs ==
    {[x |-> Num(0), y |-> Num(0), w |-> Num(10), h |-> Num(10)],
     [x |-> Num(10), y |-> Num(50), w |-> Num(20), h |-> Num(-30)],
     [x |-> Num(0), y |-> 100004, w |-> Num(10), h |-> -50008]}
\* fillText at (50, 100) and at (50.1234, 100.0004)
TextPoints == {<<Num(50), Num(100)>>, <<501234, 1000004>>}
\* the points of moveTo(10, 20) and lineTo(100, 200)
MovePoints == {<<Num(10), Num(20)>>}
LinePoints == {<<Num(100), Num(200)>>}
LineWidths == {Num(3)}
LineDashes == {<<Num(5), Num(3)>>}
LineCaps == {"round"}
Fonts == {[family |-> "Arial", size |-> "12pt", weight |-> "bold", style |-> "normal"]}
Scales == {Num(2)}
Pivots == {Num(100)}
\* pivots of openRotation: negative, zero and positive
RotationPivots == {0 - Num(5), 0, Num(10)}
RotationAngles == {Num(45), 0 - Num(90)}
ShadowColors == {"gray"}
ShadowBlurs == {Num(5)}
\* scale(2, 2) and scale(2, 1)
ScaleFactors == {<<Num(2), Num(2)>>, <<Num(2), Num(1)>>}
\* resize(800, 400)
Sizes == {<<Num(800), Num(400)>>}
Angles == {Num(45)}
\* node objects a caller builds itself and hands to add()
Children ==
    {[type |-> "path", props |-> [key |-> 0], children |-> <<>>],
     [type |-> "g", props |-> [key |-> 0, id |-> "vf-0", className |-> "vf-note"],
      children |-> <<>>, id |-> "vf-0", className |-> "vf-note"]}
\* attribute objects a caller passes to fill(attributes)
GivenAttributes == {[fill |-> "black"], [fill |-> "red", stroke |-> "black"]}

\* font descriptions: '10pt serif', '12pt Arial', '16px Arial', '2em Arial',
\* '12pt Bravura', '20px Bravura', '10pt Bravura, Academico, serif',
\* '100 12pt Arial', 'bold 12pt Arial', '120% Arial', '1.5em Bravura'
DefaultCanvasFont == [lead |-> <<>>, size |-> Num(10), unit |-> <<"p", "t">>, family |-> <<"s", "e", "r", "i", "f">>]
FontDescriptions ==
    {DefaultCanvasFont,
     [lead |-> <<>>, size |-> Num(12), unit |-> <<"p", "t">>, family |-> <<"A", "r", "i", "a", "l">>],
     [lead |-> <<>>, size |-> Num(16), unit |-> <<"p", "x">>, family |-> <<"A", "r", "i", "a", "l">>],
     [lead |-> <<>>, size |-> Num(2), unit |-> <<"e", "m">>, family |-> <<"A", "r", "i", "a", "l">>],
     [lead |-> <<>>, size |-> Num(12), unit |-> <<"p", "t">>, family |-> <<"B", "r", "a", "v", "u", "r", "a">>],
     [lead |-> <<>>, size |-> Num(20), unit |-> <<"p", "x">>, family |-> <<"B", "r", "a", "v", "u", "r", "a">>],
     [lead |-> <<>>, size |-> Num(10), unit |-> <<"p", "t">>, family |-> <<"B", "r", "a", "v", "u", "r", "a", ",", " ", "A", "c", "a", "d", "e", "m", "i", "c", "o", ",", " ", "s", "e", "r", "i", "f">>],
     [lead |-> <<"1", "0", "0", " ">>, size |-> Num(12), unit |-> <<"p", "t">>, family |-> <<"A", "r", "i", "a", "l">>],
     [lead |-> <<"b", "o", "l", "d", " ">>, size |-> Num(12), unit |-> <<"p", "t">>, family |-> <<"A", "r", "i", "a", "l">>],
     [lead |-> <<>>, size |-> Num(120), unit |-> <<"%">>, family |-> <<"A", "r", "i", "a", "l">>],
     [lead |-> <<>>, size |-> 15000, unit |-> <<"e", "m">>, family |-> <<"B", "r", "a", "v", "u", "r", "a">>]}

RECURSIVE NatChars(_)
NatChars(n) == IF n < 10 THEN <<Digit(n)>> ELSE NatChars(n \div 10) \o <<Digit(n % 10)>>

RECURSIVE FracChars(_, _)
FracChars(f, unit) ==
    IF f = 0 THEN <<>>
    ELSE <<Digit((f * 10) \div unit)>> \o FracChars((f * 10) % unit, unit)

\* the characters of the description written from its parts
FontString(d) ==
    d.lead \o NatChars(d.size \div FP)
    \o (IF d.size % FP = 0 THEN <<>> ELSE <<".">> \o FracChars(d.size % FP, FP))
    \o d.unit \o <<" ">> \o d.family

\* texts, in UTF-16 code units: '', 'A', 'AB', the G clef, two left brackets,
\* 'A' before and after the G clef, a reserved-range character without an
\* advance width (U+E000), a sharp followed by U+1F3B5, and the stem
MeasuredTexts ==
    {<<>>, <<65>>, <<65, 66>>, <<gClef>>, <<accidentalBracketLeft, accidentalBracketLeft>>,
     <<65, gClef>>, <<gClef, 65>>, <<57344>>, <<accidentalSharp, 55356, 57269>>, <<stem>>}

\* openGroup(), openGroup('note'), openGroup(undefined, '0'), openGroup('note', '0')
RenderLabels == {<<"", "">>, <<"note", "">>, <<"", "0">>, <<"note", "0">>}
\* elementStyles: none, { 'vf-0': { fill: 'blue', 'stroke-width': 3 } },
\* { 'vf-9': { fill: 'blue' } }
ElementStyles ==
    {EmptyMap,
     [k \in {"vf-0"} |-> ("fill" :> "blue") @@ ("stroke-width" :> Num(3))],
     [k \in {"vf-9"} |-> [fill |-> "blue"]]}
\* classStyles: none,
\* { 'vf-note': { fill: 'green', 'stroke-width': 2, opacity: '0.8' } }
ClassStyles ==
    {EmptyMap,
     [k \in {"vf-note"} |->
         ("fill" :> "green") @@ ("stroke-width" :> Num(2)) @@ ("opacity" :> "0.8")]}

\* the parts of the shorthands parsed: what precedes the size (nothing,
\* italic, bold, italic bold, BOLD, Oblique, 700, small-caps, "x 9px" bold,
\* bold oblique italic), the size (none, 12pt, 1.5rem, 100%, 14PX) and what
\* follows it (nothing, Arial, Roboto Slab, "Times New Roman",
\* 'Comic Sans MS' serif)
PartsBefore ==
    {<<>>,
     <<<<"i", "t", "a", "l", "i", "c">>>>,
     <<<<"b", "o", "l", "d">>>>,
     <<<<"i", "t", "a", "l", "i", "c">>, <<"b", "o", "l", "d">>>>,
     <<<<"B", "O", "L", "D">>>>,
     <<<<"O", "b", "l", "i", "q", "u", "e">>>>,
     <<<<"7", "0", "0">>>>,
     <<<<"s", "m", "a", "l", "l", "-", "c", "a", "p", "s">>>>,
     <<<<"\"", "x", " ", "9", "p", "x", "\"">>, <<"b", "o", "l", "d">>>>,
     <<<<"b", "o", "l", "d">>, <<"o", "b", "l", "i", "q", "u", "e">>, <<"i", "t", "a", "l", "i", "c">>>>}
SizeParts == {<<>>, <<"1", "2", "p", "t">>, <<"1", ".", "5", "r", "e", "m">>, <<"1", "0", "0", "%">>, <<"1", "4", "P", "X">>}
PartsAfter ==
    {<<>>,
     <<<<"A", "r", "i", "a", "l">>>>,
     <<<<"R", "o", "b", "o", "t", "o">>, <<"S", "l", "a", "b">>>>,
     <<<<"\"", "T", "i", "m", "e", "s", " ", "N", "e", "w", " ", "R", "o", "m", "a", "n", "\"">>>>,
     <<<<"'", "C", "o", "m", "i", "c", " ", "S", "a", "n", "s", " ", "M", "S", "'">>, <<"s", "e", "r", "i", "f">>>>}
\* the number of spaces between two parts, and around the shorthand
Spacings == {[gap |-> 1, pad |-> 0], [gap |-> 2, pad |-> 1]}
Shorthands ==
    {[before |-> b, size |-> z, after |-> a, gap |-> g.gap, pad |-> g.pad] :
        b \in PartsBefore, z \in SizeParts, a \in PartsAfter, g \in Spacings}

Spaces(n) == [i \in 1..n |-> " "]

RECURSIVE JoinParts(_, _)
JoinParts(parts, gap) ==
    IF Len(parts) = 0 THEN <<>>
    ELSE IF Len(parts) = 1 THEN parts[1]
    ELSE parts[1] \o Spaces(gap) \o JoinParts(Tail(parts), gap)

\* the shorthand written from its parts
ShorthandString(d) ==
    Spaces(d.pad)
    \o JoinParts(d.before \o (IF Len(d.size) = 0 THEN <<>> ELSE <<d.size>>) \o d.after, d.gap)
    \o Spaces(d.pad)

----------------------------------------------------------------------------
(* The constructor *)

Init ==
    /\ nodes = <<[type |-> "svg",
                  props |-> [key |-> 1, width |-> DefaultWidth, height |-> DefaultHeight,
                             pointerEvents |-> "box-none"],
                  children |-> <<>>]>>
    /\ parent = svg
    /\ groups = <<svg>>
    /\ groupAttributes = <<InitAttributes>>
    /\ width = DefaultWidth
    /\ height = DefaultHeight
    /\ path = ""
    /\ pen = [x |-> NaN, y |-> NaN]
    /\ attributes = InitAttributes
    /\ state = InitState
    /\ stateStack = <<>>
    /\ backgroundFillStyle = "white"
    /\ fontCSSString = ""
    /\ nextElementKey = 2
    /\ elementRegistry = EmptyMap
    /\ classRegistry = EmptyMap
    /\ thrown = FALSE
    /\ lastOp = "constructor"
    /\ lastNode = svg
    /\ made = <<svg>>
    /\ opened = <<>>
    /\ openStack = <<svg>>
    /\ savedAt = <<>>
    /\ nSet = 0
    /\ canvasFont = FontString(DefaultCanvasFont)
    /\ fontDesc = DefaultCanvasFont
    /\ measured = <<>>
    /\ mockCanvasInstance = Null
    /\ textMeasurementCanvas = Null
    /\ nCanvases = 0
    /\ lastSetup = "none"
    /\ parsed = <<>>
    /\ rendered = <<>>

----------------------------------------------------------------------------
(* One action per public method: the call, and the history it leaves *)

\* a call that creates no element and opens or closes no group
Plain(op, c) ==
    /\ Commit(c)
    /\ lastOp' = op
    /\ lastNode' = Undefined
    /\ UNCHANGED <<made, opened, openStack, savedAt, nSet>>

\* a paint or scale mutation
Mutation(op, c) ==
    /\ Commit(c)
    /\ lastOp' = op
    /\ lastNode' = Undefined
    /\ nSet' = nSet + 1
    /\ UNCHANGED <<made, opened, openStack, savedAt>>

\* a call that starts with createElement
Drawing(op, c) ==
    /\ Commit(c)
    /\ lastOp' = op
    /\ lastNode' = NewRef(Ctx)
    /\ made' = Append(made, NewRef(Ctx))
    /\ UNCHANGED <<opened, openStack, savedAt, nSet>>

\* a call of openGroup, directly or through openRotation
Opening(op, c, cls, id) ==
    /\ Commit(c)
    /\ lastOp' = op
    /\ lastNode' = NewRef(Ctx)
    /\ made' = Append(made, NewRef(Ctx))
    /\ opened' = IF c.thrown THEN opened
                 ELSE Append(opened, [node |-> NewRef(Ctx), cls |-> cls, id |-> id])
    /\ openStack' = IF c.thrown THEN openStack ELSE Append(openStack, NewRef(Ctx))
    /\ UNCHANGED <<savedAt, nSet>>

\* a call of closeGroup, directly or through closeRotation
Closing(op, c) ==
    /\ Commit(c)
    /\ lastOp' = op
    /\ lastNode' = Undefined
    /\ openStack' = IF Len(openStack) > 1 THEN Pop(openStack) ELSE openStack
    /\ UNCHANGED <<made, opened, savedAt, nSet>>

Clear ==
    /\ Commit(clear(Ctx))
    /\ lastOp' = "clear"
    /\ lastNode' = Undefined
    /\ opened' = <<>>
    /\ UNCHANGED <<made, openStack, savedAt, nSet>>

SetFillStyle(style) == Mutation("setFillStyle", setFillStyle(Ctx, style))
SetBackgroundFillStyle(style) == Mutation("setBackgroundFillStyle", setBackgroundFillStyle(Ctx, style))
SetStrokeStyle(style) == Mutation("setStrokeStyle", setStrokeStyle(Ctx, style))
SetShadowColor(color) == Plain("setShadowColor", setShadowColor(Ctx, color))
SetShadowBlur(blur) == Plain("setShadowBlur", setShadowBlur(Ctx, blur))
SetLineWidth(w) == Mutation("setLineWidth", setLineWidth(Ctx, w))
SetLineCap(capType) == Mutation("setLineCap", setLineCap(Ctx, capType))
SetLineDash(lineDash) == Mutation("setLineDash", setLineDash(Ctx, lineDash))
SetFont(fontInfo) == Mutation("setFont", setFont(Ctx, fontInfo))
FillStyleSetter(style) == Mutation("fillStyle", fillStyleSetter(Ctx, style))
StrokeStyleSetter(style) == Mutation("strokeStyle", strokeStyleSetter(Ctx, style))
Scale(x, y) == Mutation("scale", scale(Ctx, x, y))
Resize(w, h) == Plain("resize", resize(Ctx, w, h))
Rect(x, y, w, h) == Drawing("rect", rect(Ctx, x, y, w, h, EmptyMap))
FillRect(x, y, w, h) == Drawing("fillRect", fillRect(Ctx, x, y, w, h))
PointerRect(x, y, w, h) == Drawing("pointerRect", pointerRect(Ctx, x, y, w, h))
ClearRect(x, y, w, h) == Drawing("clearRect", clearRect(Ctx, x, y, w, h))
BeginPath == Plain("beginPath", beginPath(Ctx))
MoveTo(x, y) == Plain("moveTo", moveTo(Ctx, x, y))
LineTo(x, y) == Plain("lineTo", lineTo(Ctx, x, y))
ClosePath == Plain("closePath", closePath(Ctx))
Arc(x, y, radius, startAngle, endAngle, counterclockwise) ==
    Plain("arc", arc(Ctx, x, y, radius, startAngle, endAngle, counterclockwise))
Fill == Drawing("fill", fill(Ctx))
FillWith(given) == Drawing("fill", fillWith(Ctx, given))
Stroke == Drawing("stroke", stroke(Ctx))
FillText(text, x, y) ==
    IF Len(text) = 0
    THEN Plain("fillText", fillText(Ctx, text, x, y))
    ELSE Drawing("fillText", fillText(Ctx, text, x, y))
OpenGroup(cls, id) == Opening("openGroup", openGroup(Ctx, cls, id), cls, id)
CloseGroup == Closing("closeGroup", closeGroup(Ctx))
OpenRotation(angleDegrees, x, y) ==
    Opening("openRotation", openRotation(Ctx, angleDegrees, x, y), "", "")
CloseRotation == Closing("closeRotation", closeRotation(Ctx))
Add(child) ==
    LET c == add(Ctx, child)
    IN /\ Commit(c)
       /\ lastOp' = "add"
       /\ lastNode' = IF c.thrown THEN Undefined ELSE NewRef(Ctx)
       /\ UNCHANGED <<made, opened, openStack, savedAt, nSet>>

Save ==
    /\ Commit(save(Ctx))
    /\ lastOp' = "save"
    /\ lastNode' = Undefined
    /\ savedAt' = Append(savedAt, [state |-> state, attributes |-> attributes])
    /\ UNCHANGED <<made, opened, openStack, nSet>>

Restore ==
    /\ Commit(restore(Ctx))
    /\ lastOp' = "restore"
    /\ lastNode' = Undefined
    /\ savedAt' = Pop(savedAt)
    /\ UNCHANGED <<made, opened, openStack, nSet>>

\* the font of the paint state as one description, size then family
ContextFont(c) ==
    Characters(c.attributes["font-size"]) \o <<" ">> \o Characters(c.attributes["font-family"])

\* context.measureText(text)
MeasureText(text) ==
    /\ measured' = <<[by |-> "context", font |-> ContextFont(Ctx), text |-> text,
                      metrics |-> measureText(Ctx, text)]>>
    /\ lastOp' = "measureText"
    /\ lastNode' = Undefined
    /\ thrown' = FALSE
    /\ UNCHANGED <<nodes, parent, groups, groupAttributes, width, height, path, pen,
                   attributes, state, stateStack, backgroundFillStyle, fontCSSString,
                   nextElementKey, elementRegistry, classRegistry>>
    /\ UNCHANGED <<made, opened, openStack, savedAt, nSet, canvasFont, fontDesc, setupVars, parsed, rendered>>

\* canvas.getContext('2d').font = the description written from d
SetCanvasFont(d) ==
    /\ canvasFont' = FontString(d)
    /\ fontDesc' = d
    /\ lastOp' = "canvas.font"
    /\ UNCHANGED <<ctxVars, lastNode, made, opened, openStack, savedAt, nSet, measured,
                   setupVars, parsed, rendered>>

\* canvas.getContext('2d').measureText(text)
CanvasMeasureText(text) ==
    /\ measured' = <<[by |-> "canvas", font |-> canvasFont, desc |-> fontDesc,
                      text |-> text,
                      metrics |-> MockCanvasContext_measureText(canvasFont, text)]>>
    /\ lastOp' = "canvas.measureText"
    /\ UNCHANGED <<ctxVars, lastNode, made, opened, openStack, savedAt, nSet, canvasFont,
                   fontDesc, setupVars, parsed, rendered>>

\* a call of initializeTextMeasurement or resetTextMeasurement; the context
\* of a MockCanvas just constructed has the font of the class
SetupCall(op, m) ==
    /\ mockCanvasInstance' = m.mockCanvasInstance
    /\ textMeasurementCanvas' = m.textMeasurementCanvas
    /\ nCanvases' = m.nCanvases
    /\ lastSetup' = op
    /\ lastOp' = op
    /\ canvasFont' = IF m.textMeasurementCanvas # textMeasurementCanvas
                     THEN FontString(DefaultCanvasFont) ELSE canvasFont
    /\ fontDesc' = IF m.textMeasurementCanvas # textMeasurementCanvas
                   THEN DefaultCanvasFont ELSE fontDesc
    /\ UNCHANGED <<ctxVars, lastNode, made, opened, openStack, savedAt, nSet, measured,
                   parsed, rendered>>

InitializeTextMeasurement ==
    SetupCall("initializeTextMeasurement", initializeTextMeasurement(Setup))
ResetTextMeasurement == SetupCall("resetTextMeasurement", resetTextMeasurement(Setup))
IsTextMeasurementInitialized ==
    /\ lastOp' = IF isTextMeasurementInitialized(Setup)
                 THEN "isTextMeasurementInitialized: true"
                 ELSE "isTextMeasurementInitialized: false"
    /\ UNCHANGED <<ctxVars, lastNode, made, opened, openStack, savedAt, nSet, canvasVars,
                   setupVars, parsed, rendered>>

\* parseFontString(the shorthand written from d)
ParseFontString(d) ==
    /\ parsed' = <<[parts |-> d, cssFontShorthand |-> ShorthandString(d),
                    result |-> parseFontString(ShorthandString(d))]>>
    /\ lastOp' = "parseFontString"
    /\ UNCHANGED <<ctxVars, lastNode, made, opened, openStack, savedAt, nSet, canvasVars,
                   setupVars, rendered>>

\* renderElementTree(context.getSVG(), elementStyles, classStyles, onElementPress)
\* as VexFlowScore and the render of useVexFlowContext call it
RenderElementTree(elementStyles, classStyles, onElementPress) ==
    /\ rendered' = <<[svgTree |-> nodes,
                      elementStyles |-> elementStyles,
                      classStyles |-> classStyles,
                      onElementPress |-> onElementPress,
                      element |-> renderElementTree(nodes, svg, elementStyles, classStyles,
                                                    onElementPress)]>>
    /\ lastOp' = "renderElementTree"
    /\ UNCHANGED <<ctxVars, lastNode, made, opened, openStack, savedAt, nSet, canvasVars,
                   setupVars, parsed>>

----------------------------------------------------------------------------
(* Spec: the scene tree, the group stack and the registries *)

CanAllocate == Len(nodes) < MaxNodes

Next ==
    \/ CanAllocate /\ \E l \in Labels : OpenGroup(l[1], l[2])
    \/ CloseGroup
    \/ CanAllocate /\ \E a \in Angles, p \in Pivots : OpenRotation(a, p, p)
    \/ CloseRotation
    \/ CanAllocate /\ FillRect(Num(0), Num(0), Num(10), Num(10))
    \/ CanAllocate /\ \E text \in Texts : FillText(text, Num(50), Num(100))
    \/ CanAllocate /\ \E child \in Children : Add(child)
    \/ Clear

Spec == Init /\ [][Next]_vars

----------------------------------------------------------------------------
(* SpecPaint: the paint state, the scale factors and the save stack *)

CanMutate == nSet < MaxSet

NextPaint ==
    \/ CanMutate /\ \E style \in Colors : SetFillStyle(style)
    \/ CanMutate /\ \E style \in Colors : SetStrokeStyle(style)
    \/ CanMutate /\ \E w \in LineWidths : SetLineWidth(w)
    \/ CanMutate /\ \E lineDash \in LineDashes : SetLineDash(lineDash)
    \/ CanMutate /\ \E capType \in LineCaps : SetLineCap(capType)
    \/ CanMutate /\ \E fontInfo \in Fonts : SetFont(fontInfo)
    \/ CanMutate /\ \E x \in Scales : Scale(x, x)
    \/ Len(stateStack) < MaxSave /\ Save
    \/ Restore

SpecPaint == Init /\ [][NextPaint]_vars

----------------------------------------------------------------------------
(* SpecPath: the pending path, with the groups and clear() *)

CanAllocatePath == Len(nodes) < MaxPathNodes

NextPath ==
    \/ Len(path) < MaxPath /\ ClosePath
    \/ BeginPath
    \/ CanAllocatePath /\ Stroke
    \/ CanAllocatePath /\ OpenGroup("", "")
    \/ CloseGroup
    \/ Clear

SpecPath == Init /\ [][NextPath]_vars

----------------------------------------------------------------------------
(* SpecAttr: the attributes emitted on nodes under open groups *)

CanAllocateAttr == Len(nodes) < MaxAttrNodes
CanMutateAttr == nSet < MaxAttrSet

NextAttr ==
    \/ CanMutateAttr /\ \E style \in Colors : SetFillStyle(style)
    \/ CanMutateAttr /\ \E w \in LineWidths : SetLineWidth(w)
    \/ CanMutateAttr /\ \E fontInfo \in Fonts : SetFont(fontInfo)
    \/ CanAllocateAttr /\ OpenGroup("", "")
    \/ CloseGroup
    \/ CanAllocateAttr /\ Rect(Num(0), Num(0), Num(10), Num(10))
    \/ CanAllocateAttr /\ FillRect(Num(0), Num(0), Num(10), Num(10))
    \/ CanAllocateAttr /\ PointerRect(Num(0), Num(0), Num(10), Num(10))
    \/ CanAllocateAttr /\ ClearRect(Num(0), Num(0), Num(10), Num(10))
    \/ CanAllocateAttr /\ Fill
    \/ CanAllocateAttr /\ \E given \in GivenAttributes : FillWith(given)
    \/ CanAllocateAttr /\ Stroke
    \/ CanAllocateAttr /\ FillText("A", Num(50), Num(100))

SpecAttr == Init /\ [][NextAttr]_vars

----------------------------------------------------------------------------
(* SpecDraw: the pending path and the path nodes fill() and stroke() make *)

CanAllocateDraw == Len(nodes) < MaxDrawNodes
CanExtendDraw == Len(path) < MaxDrawPath

NextDraw ==
    \/ BeginPath
    \/ CanExtendDraw /\ \E p \in MovePoints : MoveTo(p[1], p[2])
    \/ CanExtendDraw /\ \E p \in LinePoints : LineTo(p[1], p[2])
    \/ CanAllocateDraw /\ Fill
    \/ CanAllocateDraw /\ Stroke
    \/ Clear

SpecDraw == Init /\ [][NextDraw]_vars

----------------------------------------------------------------------------
(* SpecInk: the fill and stroke colours of the path nodes, under groups *)

CanAllocateInk == Len(nodes) < MaxInkNodes
CanMutateInk == nSet < MaxInkSet

NextInk ==
    \/ CanMutateInk /\ \E style \in DrawColors : SetFillStyle(style)
    \/ CanMutateInk /\ \E style \in DrawColors : SetStrokeStyle(style)
    \/ CanMutateInk /\ \E w \in LineWidths : SetLineWidth(w)
    \/ CanAllocateInk /\ OpenGroup("", "")
    \/ CloseGroup
    \/ CanAllocateInk /\ Fill
    \/ CanAllocateInk /\ Stroke

SpecInk == Init /\ [][NextInk]_vars

----------------------------------------------------------------------------
(* SpecText: the text nodes, under groups *)

CanAllocateText == Len(nodes) < MaxTextNodes

NextText ==
    \/ \E text \in Texts, p \in TextPoints :
          (Len(text) = 0 \/ CanAllocateText) /\ FillText(text, p[1], p[2])
    \/ CanAllocateText /\ OpenGroup("", "")
    \/ CloseGroup
    \/ Clear

SpecText == Init /\ [][NextText]_vars

----------------------------------------------------------------------------
(* SpecRect: the rectangle nodes *)

CanAllocateRect == Len(nodes) < MaxRectNodes

NextRect ==
    \/ CanAllocateRect /\ \E r \in RectArgs : Rect(r.x, r.y, r.w, r.h)
    \/ CanAllocateRect /\ \E r \in RectArgs : FillRect(r.x, r.y, r.w, r.h)
    \/ CanAllocateRect /\ \E r \in RectArgs : PointerRect(r.x, r.y, r.w, r.h)
    \/ CanAllocateRect /\ \E r \in RectArgs : ClearRect(r.x, r.y, r.w, r.h)
    \/ CanAllocateRect /\ OpenGroup("", "")
    \/ Clear

SpecRect == Init /\ [][NextRect]_vars

----------------------------------------------------------------------------
(* SpecArc: the arcs appended to the pending path *)

CanExtendArc == Len(path) < MaxArcPath

NextArc ==
    \/ BeginPath
    \/ CanExtendArc /\ \E a0 \in ArcAngles, a1 \in ArcAngles, ccw \in BOOLEAN :
          Arc(ArcCentre[1], ArcCentre[2], ArcRadius, a0, a1, ccw)

SpecArc == Init /\ [][NextArc]_vars

----------------------------------------------------------------------------
(* SpecScale: the declared size, the scale factors and the view-box *)

CanAllocateScale == Len(nodes) < MaxScaleNodes
CanScale == nSet < MaxScaleSet
CanResize == state.scaleX <= Num(MaxScale) /\ state.scaleY <= Num(MaxScale)

NextScale ==
    \/ CanScale /\ \E f \in ScaleFactors : Scale(f[1], f[2])
    \/ CanResize /\ \E size \in Sizes : Resize(size[1], size[2])
    \/ Len(stateStack) < MaxScaleSave /\ Save
    \/ Restore
    \/ CanAllocateScale /\ FillRect(Num(0), Num(0), Num(10), Num(10))

SpecScale == Init /\ [][NextScale]_vars

----------------------------------------------------------------------------
(* SpecSet: the setters, in a context with a tree, a path and saved states *)

CanAllocateSet == Len(nodes) < MaxSetNodes
CanCallSetter == nSet < MaxSetCalls

NextSet ==
    \/ CanCallSetter /\ \E style \in Colors : SetFillStyle(style)
    \/ CanCallSetter /\ \E style \in Colors : SetStrokeStyle(style)
    \/ CanCallSetter /\ \E w \in LineWidths : SetLineWidth(w)
    \/ CanCallSetter /\ \E lineDash \in LineDashes : SetLineDash(lineDash)
    \/ CanCallSetter /\ \E capType \in LineCaps : SetLineCap(capType)
    \/ CanCallSetter /\ \E fontInfo \in Fonts : SetFont(fontInfo)
    \/ CanCallSetter /\ \E style \in Colors : FillStyleSetter(style)
    \/ CanCallSetter /\ \E style \in Colors : StrokeStyleSetter(style)
    \/ \E color \in ShadowColors : SetShadowColor(color)
    \/ \E blur \in ShadowBlurs : SetShadowBlur(blur)
    \/ Len(stateStack) < MaxSetSave /\ Save
    \/ Restore
    \/ CanAllocateSet /\ OpenGroup("note", "0")
    \/ CanAllocateSet /\ Stroke
    \/ path = "" /\ ClosePath

SpecSet == Init /\ [][NextSet]_vars

----------------------------------------------------------------------------
(* SpecRotate: rotation groups about pivots of either sign *)

CanAllocateRotate == Len(nodes) < MaxRotateNodes

NextRotate ==
    \/ CanAllocateRotate /\ \E a \in RotationAngles, x, y \in RotationPivots :
                                OpenRotation(a, x, y)
    \/ CloseRotation
    \/ CanAllocateRotate /\ OpenGroup("", "")
    \/ CloseGroup

SpecRotate == Init /\ [][NextRotate]_vars

----------------------------------------------------------------------------
(* SpecMeasure: the measurements of the context and of the mock canvas *)

NextMeasure ==
    \/ nSet < MaxMeasureSet /\ \E fontInfo \in Fonts : SetFont(fontInfo)
    \/ \E text \in MeasuredTexts : MeasureText(text)
    \/ \E d \in FontDescriptions : SetCanvasFont(d)
    \/ \E text \in MeasuredTexts : CanvasMeasureText(text)

SpecMeasure == Init /\ [][NextMeasure]_vars

----------------------------------------------------------------------------
(* SpecSetup: the installation of the mock canvas in the host library *)

NextSetup ==
    \/ nCanvases < MaxCanvases /\ InitializeTextMeasurement
    \/ ResetTextMeasurement
    \/ IsTextMeasurementInitialized
    \/ textMeasurementCanvas # Null /\ \E d \in FontDescriptions : SetCanvasFont(d)

SpecSetup == Init /\ [][NextSetup]_vars

----------------------------------------------------------------------------
(* SpecParse: the font shorthands parsed *)

NextParse == \E d \in Shorthands : ParseFontString(d)

SpecParse == Init /\ [][NextParse]_vars

----------------------------------------------------------------------------
(* SpecRender: labelled and unlabelled nodes, rendered with style overrides *)

CanAllocateRender == Len(nodes) < MaxRenderNodes
\* VexFlowScore runs onDraw(context) first and renders the tree it leaves,
\* again when the styles or the handler change
InOnDraw == rendered = <<>>

NextRender ==
    \/ InOnDraw /\ \E style \in Colors : attributes["fill"] # style /\ SetFillStyle(style)
    \/ InOnDraw /\ CanAllocateRender /\ \E l \in RenderLabels : OpenGroup(l[1], l[2])
    \/ InOnDraw /\ CloseGroup
    \/ InOnDraw /\ CanAllocateRender /\ FillRect(Num(0), Num(0), Num(10), Num(10))
    \/ \E elementStyles \in ElementStyles, classStyles \in ClassStyles,
          onElementPress \in BOOLEAN :
           RenderElementTree(elementStyles, classStyles, onElementPress)

SpecRender == Init /\ [][NextRender]_vars

----------------------------------------------------------------------------
(* SpecGrow: every call that makes a node, and clear *)

CanAllocateGrow == Len(nodes) < MaxGrowNodes

NextGrow ==
    \/ CanAllocateGrow /\ \E l \in Labels : OpenGroup(l[1], l[2])
    \/ CloseGroup
    \/ CanAllocateGrow /\ \E a \in Angles, p \in Pivots : OpenRotation(a, p, p)
    \/ CloseRotation
    \/ CanAllocateGrow /\ Rect(Num(0), Num(0), Num(10), Num(10))
    \/ CanAllocateGrow /\ FillRect(Num(0), Num(0), Num(10), Num(10))
    \/ CanAllocateGrow /\ Fill
    \/ CanAllocateGrow /\ Stroke
    \/ CanAllocateGrow /\ \E text \in Texts : FillText(text, Num(50), Num(100))
    \/ CanAllocateGrow /\ \E child \in Children : Add(child)
    \/ \E size \in Sizes : Resize(size[1], size[2])
    \/ Clear

SpecGrow == Init /\ [][NextGrow]_vars

----------------------------------------------------------------------------
(* Properties *)

LeafTypes == {"path", "rect", "text"}

\* C1: restore() puts the paint attributes and the scale factors (this.state)
\* back to the values the matching save() saw, whatever was set in between;
\* saves and restores match last in, first out, and no step changes a
\* snapshot that stays on the save stack.
C1_RestoreReturnsSavedState ==
    [][/\ (lastOp' = "restore" /\ Len(savedAt) > 0) =>
            /\ attributes' = Last(savedAt).attributes
            /\ state' = Last(savedAt).state
            /\ savedAt' = Pop(savedAt)
       /\ \A i \in DOMAIN stateStack :
            i <= Len(stateStack') => stateStack'[i] = stateStack[i]
       /\ Len(stateStack') = Len(savedAt')]_vars

\* an inner save/restore pair has reverted a mutation, inside a save that is
\* still unmatched and after which the line cap was set
C1_Witness ==
    /\ lastOp = "restore"
    /\ Len(stateStack) = 1
    /\ nSet = 3
    /\ stateStack[1].attributes = Set(InitAttributes, "fill", "red")
    /\ attributes = Set(Set(InitAttributes, "fill", "red"), "stroke-linecap", "round")
    /\ state = InitState

\* C2: a leaf appended under the frame on top of groupAttributes carries no
\* attribute whose value equals the value that frame holds under the same name.
C2_LeafOmitsGroupAttributes ==
    (/\ lastNode # Undefined
     /\ ~thrown
     /\ nodes[lastNode].type \in LeafTypes
     /\ Len(groupAttributes) > 0) =>
        \A a \in DOMAIN Last(groupAttributes) :
            Has(nodes[lastNode].props, PropName(a)) =>
                nodes[lastNode].props[PropName(a)] # Last(groupAttributes)[a]

\* a rectangle filled red inside a group opened while the fill was red: the
\* fill is left to the group, the stroke is written on the rectangle
C2_Witness ==
    /\ lastOp = "fillRect"
    /\ ~thrown
    /\ Len(groups) = 2
    /\ Last(groupAttributes)["fill"] = "red"
    /\ attributes["fill"] = "red"
    /\ ~Has(nodes[lastNode].props, "fill")
    /\ Has(nodes[lastNode].props, "stroke")
    /\ nodes[lastNode].props["stroke"] = "none"

\* C3: closeGroup() or closeRotation() called while only the root is on the
\* group stack signals an error and leaves the root on the stack, so that an
\* insertion point remains.
C3_CloseAtRootFailsFast ==
    [][(lastOp' \in {"closeGroup", "closeRotation"} /\ groups = <<svg>>) =>
            (thrown' /\ groups' = <<svg>> /\ parent' = svg)]_vars

\* C4: the state clear() leaves has a root without children, an empty
\* identifier registry and an empty list under every class name.
C4_ClearEmptiesTreeAndRegistries ==
    lastOp = "clear" =>
        /\ nodes[svg].children = <<>>
        /\ DOMAIN elementRegistry = {}
        /\ \A l \in Labels : getElementsByClassName(Ctx, l[1]) = <<>>
        /\ \A k \in DOMAIN classRegistry : classRegistry[k] = <<>>

\* clear() was called after a group with an identifier and a class had been
\* opened and registered
C4_Witness ==
    /\ lastOp = "clear"
    /\ \E i \in DOMAIN made :
          Has(nodes[made[i]], "id") /\ Has(nodes[made[i]], "className")

\* C5: the state clear() leaves has an empty pending path and only the root on
\* the group stack, the root being the insertion point; the node appended next
\* is a child of the root.
C5_ClearResetsPathAndGroups ==
    [][/\ lastOp' = "clear" =>
            /\ path' = ""
            /\ parent' = svg
            /\ groups' = <<svg>>
            /\ Len(groupAttributes') = 1
       /\ (lastOp = "clear" /\ lastNode' # Undefined) =>
            lastNode' \in Range(nodes'[svg].children)]_vars

\* C6: the insertion point is the innermost group opened and not yet closed,
\* the root when there is none; a node just appended is the last child of the
\* group that was innermost when it was appended.
C6_InsertionPointIsInnermostOpenGroup ==
    /\ parent = Last(openStack)
    /\ (lastNode # Undefined /\ lastOp # "constructor" /\ ~thrown) =>
          LET into == IF lastOp \in {"openGroup", "openRotation"}
                      THEN openStack[Len(openStack) - 1]
                      ELSE Last(openStack)
          IN /\ Len(nodes[into].children) > 0
             /\ Last(nodes[into].children) = lastNode

\* C7 as stated: every group an openGroup call returned since the last
\* clear() carries its labels prefixed with vf-, is in the list its class
\* name looks up, and is the node the registry holds under its identifier.
C7_RegistryKeepsEveryGroup ==
    \A i \in DOMAIN opened :
        LET o == opened[i]
        IN /\ o.cls # "" =>
                /\ Has(nodes[o.node], "className")
                /\ nodes[o.node].className = "vf-" \o o.cls
                /\ o.node \in Range(getElementsByClassName(Ctx, o.cls))
           /\ o.id # "" =>
                /\ Has(nodes[o.node], "id")
                /\ nodes[o.node].id = "vf-" \o o.id
                /\ Has(elementRegistry, "vf-" \o o.id)
                /\ elementRegistry["vf-" \o o.id] = o.node

\* C7 amended: as above, the registry holding the group under its identifier
\* as long as no later openGroup call has used the same identifier.
C7_RegistryKeepsGroupUntilIdReused ==
    \A i \in DOMAIN opened :
        LET o == opened[i]
        IN /\ o.cls # "" =>
                /\ Has(nodes[o.node], "className")
                /\ nodes[o.node].className = "vf-" \o o.cls
                /\ o.node \in Range(getElementsByClassName(Ctx, o.cls))
           /\ o.id # "" =>
                /\ Has(nodes[o.node], "id")
                /\ nodes[o.node].id = "vf-" \o o.id
                /\ Has(elementRegistry, "vf-" \o o.id)
                /\ (\A j \in DOMAIN opened : j > i => opened[j].id # o.id) =>
                      elementRegistry["vf-" \o o.id] = o.node

\* openGroup('note', '0') then closeGroup() on a fresh context
C7_Witness ==
    /\ lastOp = "closeGroup"
    /\ groups = <<svg>>
    /\ Len(opened) = 1
    /\ opened[1].cls = "note"
    /\ opened[1].id = "0"
    /\ getElementsByClassName(Ctx, "note") = <<opened[1].node>>
    /\ elementRegistry["vf-0"] = opened[1].node

\* the groups openGroup returned since the last clear() with the given class
\* (or identifier), in call order
OpenedWithClass(cls) ==
    LET sel == SelectSeq(opened, LAMBDA o : o.cls = cls)
    IN [i \in DOMAIN sel |-> sel[i].node]
OpenedWithId(id) ==
    LET sel == SelectSeq(opened, LAMBDA o : o.id = id)
    IN [i \in DOMAIN sel |-> sel[i].node]

\* C8: the list a class name looks up holds the groups opened with that class
\* since the last clear(), once each and in the order they were created; the
\* registry holds under an identifier the last group opened with it.
C8_ClassListInOrderLastIdWins ==
    /\ \A l \in Labels :
          l[1] # "" => getElementsByClassName(Ctx, l[1]) = OpenedWithClass(l[1])
    /\ \A l \in Labels :
          (l[2] # "" /\ OpenedWithId(l[2]) # <<>>) =>
              /\ Has(elementRegistry, "vf-" \o l[2])
              /\ elementRegistry["vf-" \o l[2]] = Last(OpenedWithId(l[2]))

\* two groups opened with the same class and identifier
C8_Witness ==
    /\ Len(OpenedWithClass("note")) = 2
    /\ Len(OpenedWithId("0")) = 2
    /\ Len(getElementsByClassName(Ctx, "note")) = 2
    /\ elementRegistry["vf-0"] = opened[2].node

\* the nodes a walk from node n visits
RECURSIVE Walk(_)
Walk(n) == {n} \cup UNION {Walk(nodes[n].children[i]) : i \in DOMAIN nodes[n].children}

\* the nodes the registries hold
Registered ==
    {elementRegistry[k] : k \in DOMAIN elementRegistry}
    \cup UNION {Range(classRegistry[k]) : k \in DOMAIN classRegistry}

\* C9: every node with an identifier or a class that a walk from the root
\* visits is in the registry under it, and every node the registries hold is
\* visited by the walk.
C9_RegistriesMatchTreeWalk ==
    /\ \A n \in Walk(svg) :
          /\ Has(nodes[n], "id") => Has(elementRegistry, nodes[n].id)
          /\ Has(nodes[n], "className") =>
                n \in Range(GetList(classRegistry, nodes[n].className))
    /\ Registered \subseteq Walk(svg)

\* C10: of two nodes createElement returned, the later one has the greater key.
C10_KeysIncrease ==
    \A i, j \in DOMAIN made :
        i < j => nodes[made[i]].props["key"] < nodes[made[j]].props["key"]

\* a rectangle was appended to the root, clear() removed it, and the node
\* created next is the root's only child
C10_Witness ==
    /\ Len(made) >= 3
    /\ nodes[made[2]].type = "rect"
    /\ parent = svg
    /\ groups = <<svg>>
    /\ nodes[svg].children = <<made[3]>>

----------------------------------------------------------------------------
(* Properties of the pending path and of the path nodes *)

\* whether node n, appended under the groups of `stack` (innermost last),
\* renders attribute a with value v: its own prop if it has one, otherwise the
\* prop of the nearest enclosing element that has one
RECURSIVE Resolves(_, _, _, _)
Resolves(stack, n, a, v) ==
    IF Has(nodes[n].props, PropName(a)) THEN nodes[n].props[PropName(a)] = v
    ELSE IF Len(stack) = 0 THEN FALSE
    ELSE Resolves(Pop(stack), Last(stack), a, v)

\* whether node n or an enclosing element of it has a prop for attribute a
RECURSIVE Emits(_, _, _)
Emits(stack, n, a) ==
    \/ Has(nodes[n].props, PropName(a))
    \/ Len(stack) > 0 /\ Emits(Pop(stack), Last(stack), a)

\* the strings the explored moveTo and lineTo calls append to the path
PathCommands ==
    {"M" \o NumStr(p[1]) \o " " \o NumStr(p[2]) : p \in MovePoints}
    \cup {"L" \o NumStr(p[1]) \o " " \o NumStr(p[2]) : p \in LinePoints}

\* C11: on a fresh context, stroke() called with the pending path
\* M10 20L100 200 appends one path node to the root, with that geometry,
\* fill 'none', and a stroke colour on the node or on an element around it.
C11_FreshStrokeDrawsVisibleLine ==
    (/\ lastOp = "stroke"
     /\ Len(nodes) = 2
     /\ attributes = InitAttributes
     /\ groups = <<svg>>
     /\ path = "M10 20L100 200") =>
        /\ nodes[svg].children = <<lastNode>>
        /\ nodes[lastNode].type = "path"
        /\ Has(nodes[lastNode].props, "d")
        /\ nodes[lastNode].props["d"] = "M10 20L100 200"
        /\ Resolves(groups, lastNode, "fill", "none")
        /\ Emits(groups, lastNode, "stroke")
        /\ ~Resolves(groups, lastNode, "stroke", "none")

\* the paint attributes a path node takes, the one in `off` left out
PathPaint(off) == (DOMAIN attributes \ AttributesToIgnore("path")) \ {off}

\* whether the last node carries the current value of attribute a, written on
\* it or left to the frame on top of groupAttributes
FromCurrentState(a) ==
    IF Has(nodes[lastNode].props, PropName(a))
    THEN nodes[lastNode].props[PropName(a)] = attributes[a]
    ELSE /\ Has(Last(groupAttributes), a)
         /\ Last(groupAttributes)[a] = attributes[a]

\* C12: a path node stroke() appended renders with fill 'none', one fill()
\* appended renders with stroke 'none', whatever the current colours are; its
\* other paint attributes have the values of this.attributes at the call.
C12_StrokeDisablesFillAndFillDisablesStroke ==
    /\ (lastOp = "stroke" /\ ~thrown) =>
          /\ Resolves(groups, lastNode, "fill", "none")
          /\ \A a \in PathPaint("fill") : FromCurrentState(a)
    /\ (lastOp = "fill" /\ ~thrown) =>
          /\ Resolves(groups, lastNode, "stroke", "none")
          /\ \A a \in PathPaint("stroke") : FromCurrentState(a)

\* stroke() was called while the fill colour was red and the line width 3
C12_Witness ==
    /\ lastOp = "stroke"
    /\ ~thrown
    /\ attributes["fill"] = "red"
    /\ attributes["stroke-width"] = Num(3)
    /\ Has(nodes[lastNode].props, "fill")
    /\ Has(nodes[lastNode].props, "strokeWidth")
    /\ nodes[lastNode].props["fill"] = "none"
    /\ nodes[lastNode].props["strokeWidth"] = Num(3)

\* C13: fill() and stroke() leave the pending path as it is and write it on
\* the node, so that a fill() followed by a stroke() gives two nodes with the
\* same geometry; moveTo and lineTo append to the path; nothing but
\* beginPath() (and clear()) takes a path that is not empty to the empty one.
C13_FillAndStrokeKeepPendingPath ==
    [][/\ (lastOp' \in {"fill", "stroke"}) =>
            /\ path' = path
            /\ nodes'[lastNode'].props["d"] = path
       /\ (lastOp \in {"fill", "stroke"} /\ lastOp' \in {"fill", "stroke"}) =>
            nodes'[lastNode'].props["d"] = nodes[lastNode].props["d"]
       /\ (lastOp' \in {"moveTo", "lineTo"}) =>
            \E cmd \in PathCommands : path' = path \o cmd
       /\ (path # "" /\ path' = "") => lastOp' \in {"beginPath", "clear"}]_vars

\* fill() then stroke() of the path M10 20, which is still pending
C13_Witness ==
    /\ lastOp = "stroke"
    /\ made = <<svg, 2, 3>>
    /\ nodes[svg].children = <<2, 3>>
    /\ Has(nodes[2].props, "stroke")
    /\ nodes[2].props["stroke"] = "none"
    /\ Has(nodes[3].props, "fill")
    /\ nodes[3].props["fill"] = "none"
    /\ nodes[2].props["d"] = "M10 20"
    /\ nodes[3].props["d"] = "M10 20"
    /\ path = "M10 20"

----------------------------------------------------------------------------
(* Properties of the text and rectangle nodes *)

\* the fields of the context (ctxVars without the record of the last call's
\* outcome)
ctxFields == <<nodes, parent, groups, groupAttributes, width, height, path, pen,
               attributes, state, stateStack, backgroundFillStyle, fontCSSString,
               nextElementKey, elementRegistry, classRegistry>>

\* whether the step made one node of the given type the last child of the
\* insertion point and left every other node as it was
AppendsOne(type) ==
    /\ Len(nodes') = Len(nodes) + 1
    /\ nodes'[Len(nodes')].type = type
    /\ parent' = parent
    /\ nodes'[parent].children = Append(nodes[parent].children, Len(nodes'))
    /\ \A n \in DOMAIN nodes :
          n # parent => nodes'[n] = nodes[n]

\* C14 as stated: fillText with the empty string changes nothing in the
\* context; with another string and an insertion point it appends one text
\* node holding that string, at exactly the x and y given.
C14_TextNodeAtGivenPosition ==
    [][\A text \in Texts, p \in TextPoints :
          FillText(text, p[1], p[2]) =>
             IF text = ""
             THEN UNCHANGED <<ctxFields, made>>
             ELSE parent # Undefined =>
                    /\ AppendsOne("text")
                    /\ nodes'[Len(nodes')].textContent = text
                    /\ nodes'[Len(nodes')].props["x"] = p[1]
                    /\ nodes'[Len(nodes')].props["y"] = p[2]]_vars

\* C14 amended: as above, the node being at the x and y given rounded to
\* the rendering precision (three decimals).
C14_TextNodeAtRoundedPosition ==
    [][\A text \in Texts, p \in TextPoints :
          FillText(text, p[1], p[2]) =>
             IF text = ""
             THEN UNCHANGED <<ctxFields, made>>
             ELSE parent # Undefined =>
                    /\ AppendsOne("text")
                    /\ nodes'[Len(nodes')].textContent = text
                    /\ nodes'[Len(nodes')].props["x"] = round(p[1])
                    /\ nodes'[Len(nodes')].props["y"] = round(p[2])]_vars

\* fillText('A', 50.1234, 100.0004) in an open group, then fillText('', ...)
C14_Witness ==
    /\ lastOp = "fillText"
    /\ lastNode = Undefined
    /\ Len(groups) = 2
    /\ Len(nodes[parent].children) = 1
    /\ nodes[nodes[parent].children[1]].type = "text"
    /\ nodes[nodes[parent].children[1]].textContent = "A"
    /\ nodes[nodes[parent].children[1]].props["x"] = 501230
    /\ nodes[nodes[parent].children[1]].props["y"] = Num(100)

\* the node a rectangle call appends in context c
NewNode(c) == c.nodes[Len(c.nodes)]

\* C15: a rectangle call with a negative height h appends the node the same
\* call appends with y + h for y and -h for h, and no node of type rect has a
\* negative height.
C15_NegativeHeightIsFlipped ==
    [][/\ \A r \in RectArgs :
            r.h < 0 =>
               /\ Rect(r.x, r.y, r.w, r.h) =>
                     nodes'[Len(nodes')] = NewNode(rect(Ctx, r.x, r.y + r.h, r.w, 0 - r.h, EmptyMap))
               /\ FillRect(r.x, r.y, r.w, r.h) =>
                     nodes'[Len(nodes')] = NewNode(fillRect(Ctx, r.x, r.y + r.h, r.w, 0 - r.h))
               /\ ClearRect(r.x, r.y, r.w, r.h) =>
                     nodes'[Len(nodes')] = NewNode(clearRect(Ctx, r.x, r.y + r.h, r.w, 0 - r.h))
               /\ PointerRect(r.x, r.y, r.w, r.h) =>
                     nodes'[Len(nodes')] = NewNode(pointerRect(Ctx, r.x, r.y + r.h, r.w, 0 - r.h))
       /\ \A n \in DOMAIN nodes' :
            nodes'[n].type = "rect" => nodes'[n].props["height"] >= 0]_vars

\* rect(10, 50, 20, -30) appended the rectangle at (10, 20) of height 30
C15_Witness ==
    /\ lastOp = "rect"
    /\ nodes[lastNode].type = "rect"
    /\ nodes[lastNode].props["x"] = Num(10)
    /\ nodes[lastNode].props["y"] = Num(20)
    /\ nodes[lastNode].props["width"] = Num(20)
    /\ nodes[lastNode].props["height"] = Num(30)
    /\ lastNode \in Range(nodes[svg].children)

----------------------------------------------------------------------------
(* Properties of arc() *)

\* the point of the explored circle at angle a, as written in a path
PointAt(a) ==
    NumStr(round(ArcCentre[1] + Mul(ArcRadius, Cos(a)))) \o " "
    \o NumStr(round(ArcCentre[2] + Mul(ArcRadius, Sin(a))))

\* an elliptical-arc command of the explored circle to the point at angle a
ArcTo(large, sweep, a) ==
    "A" \o NumStr(ArcRadius) \o " " \o NumStr(ArcRadius) \o " 0 " \o large
    \o " " \o sweep \o " " \o PointAt(a)

\* a move to the point at a0, an arc to the opposite point and an arc back
TwoArcs(a0) ==
    "M" \o PointAt(a0) \o " " \o ArcTo("0", "0", a0 + PI) \o " " \o ArcTo("0", "0", a0)

\* the step is the call arc(cx, cy, r, a0, a1, ccw) of the explored circle
ArcCall(a0, a1, ccw) == Arc(ArcCentre[1], ArcCentre[2], ArcRadius, a0, a1, ccw)

\* C16 as stated: when a0 and a1 are a full turn or more apart, or are the
\* same angle modulo a full turn, arc() appends a move to the start point and
\* two arc commands, whatever the direction flag is.
C16_FullTurnApartGivesTwoArcs ==
    [][\A a0 \in ArcAngles, a1 \in ArcAngles, ccw \in BOOLEAN :
          (/\ (Abs(a1 - a0) >= TWO_PI \/ a0 % TWO_PI = a1 % TWO_PI)
           /\ ArcCall(a0, a1, ccw)) =>
              path' = path \o TwoArcs(a0)]_vars

\* C16 amended: the same, the span being measured in the direction of
\* drawing: a1 - a0 when the counterclockwise flag is false, a0 - a1 when it
\* is true.
C16_FullTurnInDrawingDirectionGivesTwoArcs ==
    [][\A a0 \in ArcAngles, a1 \in ArcAngles, ccw \in BOOLEAN :
          (/\ \/ (IF ccw THEN a0 - a1 ELSE a1 - a0) >= TWO_PI
              \/ a0 % TWO_PI = a1 % TWO_PI
           /\ ArcCall(a0, a1, ccw)) =>
              path' = path \o TwoArcs(a0)]_vars

\* arc(50, 50, 25, 0, 2 pi, false) on an empty path
C16_Witness ==
    /\ lastOp = "arc"
    /\ path = "M75 50 A25 25 0 0 0 25 50 A25 25 0 0 0 75 50"
    /\ pen = [x |-> Num(75), y |-> Num(50)]

\* C17: an arc() call that is not a full circle appends a move to the start
\* point and one arc command that ends at the point of the end angle, with
\* sweep flag 1 when the counterclockwise flag is false and 0 when it is true.
C17_PartialArcIsOneArcWithSweepFlag ==
    [][\A a0 \in ArcAngles, a1 \in ArcAngles, ccw \in BOOLEAN :
          (/\ (IF ccw THEN a0 - a1 ELSE a1 - a0) < TWO_PI
           /\ a0 % TWO_PI # a1 % TWO_PI
           /\ ArcCall(a0, a1, ccw)) =>
              \E large \in {"0", "1"} :
                 path' = path \o "M" \o PointAt(a0) \o " "
                              \o ArcTo(large, IF ccw THEN "0" ELSE "1", a1)]_vars

\* arc(50, 50, 25, 0, pi / 2, false) on an empty path
C17_Witness ==
    /\ lastOp = "arc"
    /\ path = "M75 50 A25 25 0 0 1 50 75"
    /\ pen = [x |-> Num(50), y |-> Num(75)]

----------------------------------------------------------------------------
(* Properties of scale() and resize() *)

\* the view-box of a surface of size w x h seen at the scale factors sx, sy
ViewBoxOf(w, h, sx, sy) ==
    "0 0 " \o NumStr(Div(w, sx)) \o " " \o NumStr(Div(h, sy))

\* whether the step left every node but the root as it was and the root with
\* the children it had
KeepsChildren ==
    /\ Len(nodes') = Len(nodes)
    /\ nodes'[svg].children = nodes[svg].children
    /\ \A n \in DOMAIN nodes : n # svg => nodes'[n] = nodes[n]

\* C18: scale(x, y) multiplies the scale factors held in this.state by x and
\* y, starting from 1 and 1, sets the view-box to the declared size divided by
\* the products, and changes no node but the root.
C18_ScaleMultipliesAndSetsViewBox ==
    [][/\ \A f \in ScaleFactors :
            Scale(f[1], f[2]) =>
               /\ state'.scaleX = Mul(state.scaleX, f[1])
               /\ state'.scaleY = Mul(state.scaleY, f[2])
               /\ nodes'[svg].props["viewBox"] =
                     ViewBoxOf(width, height, Mul(state.scaleX, f[1]), Mul(state.scaleY, f[2]))
               /\ KeepsChildren
       /\ (lastOp = "constructor") => (state.scaleX = Num(1) /\ state.scaleY = Num(1))]_vars

\* scale(2, 2) then scale(2, 1) on the 500 x 200 surface, a rectangle being
\* in the tree
C18_Witness ==
    /\ lastOp = "scale"
    /\ width = Num(500)
    /\ height = Num(200)
    /\ state.scaleX = Num(4)
    /\ state.scaleY = Num(2)
    /\ Has(nodes[svg].props, "viewBox")
    /\ nodes[svg].props["viewBox"] = "0 0 125 100"
    /\ Len(nodes[svg].children) = 1

\* C19: resize(w, h) sets the declared size and the root's width and height
\* to w and h, leaves the scale factors as they were, sets the view-box to
\* the new size divided by them, and leaves the children as they were.
C19_ResizeKeepsScale ==
    [][\A size \in Sizes :
          Resize(size[1], size[2]) =>
             /\ width' = size[1]
             /\ height' = size[2]
             /\ nodes'[svg].props["width"] = size[1]
             /\ nodes'[svg].props["height"] = size[2]
             /\ state'.scaleX = state.scaleX
             /\ state'.scaleY = state.scaleY
             /\ nodes'[svg].props["viewBox"] =
                   ViewBoxOf(size[1], size[2], state.scaleX, state.scaleY)
             /\ KeepsChildren]_vars

\* C20: a view-box on the root is the declared size divided by the scale
\* factors that this.state holds.
C20_ViewBoxReflectsSizeAndScale ==
    Has(nodes[svg].props, "viewBox") =>
        nodes[svg].props["viewBox"] = ViewBoxOf(width, height, state.scaleX, state.scaleY)

----------------------------------------------------------------------------
(* Properties of the setters and of restore() *)

PaintSetters ==
    {"setFillStyle", "setStrokeStyle", "setLineWidth", "setLineDash", "setLineCap",
     "setFont", "fillStyle", "strokeStyle"}

\* C21: a paint setter leaves the tree, the registries, the pending path, the
\* group stack and its frames, the save stack, the scale factors and the next
\* creation key as they were, and creates no node.
C21_SettersChangePaintStateOnly ==
    [][lastOp' \in PaintSetters =>
          /\ UNCHANGED <<nodes, parent, groups, groupAttributes, path, pen, stateStack,
                         nextElementKey, elementRegistry, classRegistry, width, height,
                         backgroundFillStyle, made>>
          /\ state'.scaleX = state.scaleX
          /\ state'.scaleY = state.scaleY
          /\ ~thrown']_vars

\* setFillStyle('red') called inside the group note/0, a state being saved
\* and the path Z pending
C21_Witness ==
    /\ lastOp = "setFillStyle"
    /\ attributes["fill"] = "red"
    /\ Len(groups) = 2
    /\ Last(groupAttributes)["fill"] = "black"
    /\ Has(elementRegistry, "vf-0")
    /\ Len(stateStack) = 1
    /\ path = "Z"

\* C22: setShadowColor and setShadowBlur return normally and leave every
\* field of the context as it was.
C22_ShadowSettersAreNoOps ==
    [][lastOp' \in {"setShadowColor", "setShadowBlur"} =>
          (UNCHANGED <<ctxFields, made>> /\ ~thrown')]_vars

\* setShadowColor called after the stroke colour was set to red and a group
\* was opened
C22_Witness ==
    /\ lastOp = "setShadowColor"
    /\ attributes["stroke"] = "red"
    /\ Len(groups) = 2

\* C23: restore() called with nothing saved returns normally and leaves every
\* field of the context as it was; a restore() with a state saved still
\* returns to the state of its save().
C23_RestoreOnEmptyStackIsNoOp ==
    [][/\ (lastOp' = "restore" /\ stateStack = <<>>) =>
            (UNCHANGED <<ctxFields, made>> /\ ~thrown')
       /\ (lastOp' = "restore" /\ Len(savedAt) > 0) =>
            /\ Len(stateStack) = Len(savedAt)
            /\ attributes' = Last(savedAt).attributes
            /\ state' = Last(savedAt).state]_vars

\* restore() was called with nothing saved while the fill colour was red
\* and a group was open
C23_Witness ==
    /\ lastOp = "restore"
    /\ stateStack = <<>>
    /\ savedAt = <<>>
    /\ attributes["fill"] = "red"
    /\ attributes["stroke"] = "black"
    /\ Len(groups) = 2

----------------------------------------------------------------------------
(* Properties of the rotation groups *)

\* the texts an SVG transform list accepts for the number n: its decimal
\* form, and for zero the signed form as well
Denotations(n) == {NumStr(n)} \cup (IF n = 0 THEN {"-0"} ELSE {})

\* transform is: translate by (x, y), rotate by deg, translate by (-x, -y)
IsRotationAbout(transform, deg, x, y) ==
    \E bx \in Denotations(0 - x), by \in Denotations(0 - y) :
        transform = "translate(" \o NumStr(x) \o "," \o NumStr(y) \o ") rotate("
                    \o NumStr(deg) \o ") translate(" \o bx \o "," \o by \o ")"

\* C24: openRotation(deg, x, y) opens a group at the insertion point whose
\* transform is translate(x, y), rotate(deg), translate(-x, -y), for pivots
\* of either sign and for zero, and closeRotation() closes it like any group.
C24_RotationAboutGivenPivot ==
    [][/\ \A a \in RotationAngles, x, y \in RotationPivots :
            (lastOp' = "openRotation" /\ ~thrown' /\ OpenRotation(a, x, y)) =>
                /\ nodes'[lastNode'].type = "g"
                /\ parent' = lastNode'
                /\ Last(groups') = lastNode'
                /\ Has(nodes'[lastNode'].props, "transform")
                /\ IsRotationAbout(nodes'[lastNode'].props["transform"], a, x, y)
       /\ (lastOp' = "closeRotation" /\ Len(groups) > 1) =>
                /\ groups' = Pop(groups)
                /\ parent' = Last(groups')
                /\ nodes' = nodes]_vars

----------------------------------------------------------------------------
(* Properties of the text measurement *)

ByCanvas == measured # <<>> /\ measured[1].by = "canvas"
ByContext == measured # <<>> /\ measured[1].by = "context"

\* C25: the width the context's measureText(text) returns is the width the
\* mock canvas computes for the same text with the font of the paint state.
C25_ContextMeasureTextDelegates ==
    ByContext =>
        measured[1].metrics.width * (MetricUnit \div FP)
            = MockCanvasContext_measureText(measured[1].font, measured[1].text).width

\* the family of the description is symbolic
Symbolic(fontString) == getFontMetrics(parseFontFamily(fontString)).isMusicFont

\* the text is measured by its number of characters
ByCharacterCount(fontString, text) ==
    ~(Symbolic(fontString) /\ Len(text) > 0 /\ isSmuflGlyph(text[1]))

Prefixes(text) == {SubSeq(text, 1, n) : n \in 0..Len(text)}

\* C26 as stated: with the font fixed, a string that is not longer than the
\* measured one is not wider, whatever the two strings contain.
C26_WidthMonotoneInLength ==
    ByCanvas =>
        \A s \in MeasuredTexts :
            Len(s) <= Len(measured[1].text) =>
                MockCanvasContext_measureText(measured[1].font, s).width
                    <= measured[1].metrics.width

\* C26: with the font fixed, a prefix of the measured string is not wider
\* than it, and of two strings measured by character count the one that is
\* not longer is not wider.
C26_WidthMonotoneUnderExtension ==
    ByCanvas =>
        LET f == measured[1].font
            t == measured[1].text
        IN /\ \A s \in Prefixes(t) :
                  MockCanvasContext_measureText(f, s).width <= measured[1].metrics.width
           /\ \A s \in MeasuredTexts :
                  (/\ ByCharacterCount(f, s)
                   /\ ByCharacterCount(f, t)
                   /\ Len(s) <= Len(t)) =>
                      MockCanvasContext_measureText(f, s).width <= measured[1].metrics.width

\* the G clef followed by 'A' was measured in '12pt Bravura', glyph by glyph:
\* it is wider than its prefix, the G clef alone
C26_Witness ==
    /\ ByCanvas
    /\ Symbolic(measured[1].font)
    /\ measured[1].text = <<gClef, 65>>
    /\ ~ByCharacterCount(measured[1].font, measured[1].text)
    /\ measured[1].metrics.width > MockCanvasContext_measureText(measured[1].font, <<gClef>>).width
    /\ MockCanvasContext_measureText(measured[1].font, <<gClef>>).width > 0

SizeFactors == {2, 3}

\* C27: the description written with k times the size gives k times the
\* width, the ascent and the descent for the same text.
C27_MetricsScaleWithFontSize ==
    ByCanvas =>
        \A k \in SizeFactors :
            LET d == measured[1].desc
                scaled == MockCanvasContext_measureText(
                              FontString([d EXCEPT !.size = k * d.size]), measured[1].text)
            IN /\ scaled.width = k * measured[1].metrics.width
               /\ scaled.actualBoundingBoxAscent = k * measured[1].metrics.actualBoundingBoxAscent
               /\ scaled.actualBoundingBoxDescent
                     = k * measured[1].metrics.actualBoundingBoxDescent

\* C28: every metric of the empty string is 0.
C28_EmptyStringHasZeroMetrics ==
    (ByCanvas /\ measured[1].text = <<>>) =>
        \A k \in DOMAIN measured[1].metrics : measured[1].metrics[k] = 0

\* the sum, over the characters of the text, of the advance width times a
\* quarter of the pixel size for a reserved-range character of the table, a
\* quarter of the pixel size for another reserved-range character, and
\* outside hundredths of the pixel size for any other character
RECURSIVE GlyphSum(_, _, _)
GlyphSum(text, pixelSize, outside) ==
    IF Len(text) = 0 THEN 0
    ELSE LET paired == /\ IsHighSurrogate(text[1])
                       /\ Len(text) >= 2
                       /\ IsLowSurrogate(text[2])
             one == IF text[1] \in 57344..63743
                    THEN IF text[1] \in DOMAIN SMUFL_GLYPH_ADVANCE_WIDTHS
                         THEN (SMUFL_GLYPH_ADVANCE_WIDTHS[text[1]] * pixelSize) \div 40
                         ELSE 25 * pixelSize
                    ELSE outside * pixelSize
         IN one + GlyphSum(SubSeq(text, IF paired THEN 3 ELSE 2, Len(text)),
                           pixelSize, outside)

\* the width of the measurement is the glyph sum when the family is symbolic
\* and the text begins in the reserved range, and the character count times
\* the pixel size times the family's ratio otherwise
WidthIs(outside) ==
    LET f == measured[1].font
        t == measured[1].text
        pixelSize == parseFontSize(f)
        ratio == getFontMetrics(parseFontFamily(f)).avgCharWidth
    IN measured[1].metrics.width =
           IF Symbolic(f) /\ Len(t) > 0 /\ t[1] \in 57344..63743
           THEN GlyphSum(t, pixelSize, IF outside = 0 THEN ratio ELSE outside)
           ELSE Len(t) * pixelSize * ratio

\* C29 as stated: in the glyph sum a character outside the reserved range
\* counts for the pixel size times the family's average-width ratio.
C29_OutsideCharactersUseFamilyRatio == ByCanvas => WidthIs(0)

\* C29: in the glyph sum a character outside the reserved range counts for
\* 0.55 times the pixel size, whatever the family's ratio.
C29_OutsideCharactersUseTextRatio == ByCanvas => WidthIs(55)

\* a sharp followed by U+1F3B5 was measured in a symbolic family: the sharp
\* by its advance width, the other character by 0.55 of the pixel size
C29_Witness ==
    /\ ByCanvas
    /\ Symbolic(measured[1].font)
    /\ measured[1].text = <<accidentalSharp, 55356, 57269>>
    /\ measured[1].metrics.width =
           (996 * parseFontSize(measured[1].font)) \div 40
           + 55 * parseFontSize(measured[1].font)

\* C30: the pixel size is the size of the description times 1.333 for
\* points, times 16 for em and times 1 for pixels, and the description
\* without what precedes the size has the same pixel size.
C30_PixelSizeFromSizeTokenAlone ==
    /\ fontDesc.unit = <<"p", "t">> => parseFontSize(canvasFont) = Mul(13330, fontDesc.size)
    /\ fontDesc.unit = <<"e", "m">> => parseFontSize(canvasFont) = 16 * fontDesc.size
    /\ fontDesc.unit = <<"p", "x">> => parseFontSize(canvasFont) = fontDesc.size
    /\ parseFontSize(canvasFont) = parseFontSize(FontString([fontDesc EXCEPT !.lead = <<>>]))

----------------------------------------------------------------------------
(* Properties of the installation of the mock canvas *)

InitializedIffLastWasInitialize ==
    isTextMeasurementInitialized(Setup) <=> lastSetup = "initializeTextMeasurement"

\* C31: isTextMeasurementInitialized() is true exactly when the last of the
\* initialize/reset calls was initializeTextMeasurement(), and false before any
\* call; an initializeTextMeasurement() that follows another without a reset
\* in between constructs no canvas, keeps the same MockCanvas installed in the
\* host library and leaves its context's font as it was.
C31_InitializedIffLastCallInitialized ==
    [][/\ InitializedIffLastWasInitialize
       /\ InitializedIffLastWasInitialize'
       /\ (IsTextMeasurementInitialized /\ lastOp' = "isTextMeasurementInitialized: true")
             => lastSetup = "initializeTextMeasurement"
       /\ (IsTextMeasurementInitialized /\ lastOp' = "isTextMeasurementInitialized: false")
             => lastSetup \in {"none", "resetTextMeasurement"}
       /\ InitializeTextMeasurement
             => textMeasurementCanvas' = mockCanvasInstance' /\ mockCanvasInstance' # Null
       /\ (InitializeTextMeasurement /\ lastSetup = "initializeTextMeasurement")
             => UNCHANGED <<mockCanvasInstance, textMeasurementCanvas, nCanvases, canvasFont,
                            fontDesc, lastSetup>>]_vars

\* initializeTextMeasurement() was called again without a reset in between,
\* on the second MockCanvas, whose context had been given the font
\* '12pt Arial'
C31_Witness ==
    /\ lastOp = "initializeTextMeasurement"
    /\ lastSetup = "initializeTextMeasurement"
    /\ nCanvases = 2
    /\ mockCanvasInstance = 2
    /\ textMeasurementCanvas = 2
    /\ canvasFont = <<"1", "2", "p", "t", " ", "A", "r", "i", "a", "l">>

----------------------------------------------------------------------------
(* Properties of parseFontString *)

StyleWords == {<<"i", "t", "a", "l", "i", "c">>, <<"o", "b", "l", "i", "q", "u", "e">>}
IsWeightWord(part) == toLowerCase(part) = <<"b", "o", "l", "d">> \/ ThreeDigits(part)

\* the last of the parts that satisfies Is, or none
LastPart(parts, Is(_), none) ==
    IF \E i \in 1..Len(parts) : Is(parts[i])
    THEN parts[CHOOSE i \in 1..Len(parts) :
                   Is(parts[i]) /\ \A k \in (i + 1)..Len(parts) : ~Is(parts[k])]
    ELSE none

\* the result for the shorthand written from the parts d, the weight being
\* written as Weight writes the part that gives it
ParsesTo(d, Weight(_)) ==
    LET sized == Len(d.size) > 0
        IsStyleWord(part) == toLowerCase(part) \in StyleWords
        weightPart == LastPart(d.before, IsWeightWord, <<>>)
    IN [family |-> IF sized /\ Len(d.after) > 0 THEN StripQuotes(JoinWords(d.after))
                   ELSE <<"A", "r", "i", "a", "l">>,
        size |-> IF sized THEN d.size ELSE <<"1", "0", "p", "t">>,
        weight |-> IF sized /\ Len(weightPart) > 0 THEN Weight(weightPart)
                   ELSE <<"n", "o", "r", "m", "a", "l">>,
        style |-> IF sized
                  THEN toLowerCase(LastPart(d.before, IsStyleWord,
                                            <<"n", "o", "r", "m", "a", "l">>))
                  ELSE <<"n", "o", "r", "m", "a", "l">>]

BoldOrNumber(part) == IF ThreeDigits(part) THEN part ELSE <<"b", "o", "l", "d">>
AsWritten(part) == part

\* C32 as stated: the size is the first number-and-unit part, the style is
\* italic or oblique and the weight 'bold' or the three-digit number when
\* such a part precedes the size, the family is what follows the size without
\* quotes, and what is absent has its default.
C32_ParsesShorthandBoldOrNumber ==
    parsed # <<>> => parsed[1].result = ParsesTo(parsed[1].parts, BoldOrNumber)

\* What parseFontString returns: the same, the weight being the part as the
\* shorthand writes it ('BOLD' for BOLD, while the style is written in lower case).
ParsesShorthandWeightAsWritten ==
    parsed # <<>> => parsed[1].result = ParsesTo(parsed[1].parts, AsWritten)

\* 'BOLD  12pt  "Times New Roman"' was parsed: size 12pt, weight BOLD,
\* family Times New Roman
ParsedUpperCaseBold ==
    /\ parsed # <<>>
    /\ parsed[1].parts.before = <<<<"B", "O", "L", "D">>>>
    /\ parsed[1].parts.gap = 2
    /\ parsed[1].result.size = <<"1", "2", "p", "t">>
    /\ parsed[1].result.weight = <<"B", "O", "L", "D">>
    /\ parsed[1].result.style = <<"n", "o", "r", "m", "a", "l">>
    /\ parsed[1].result.family
           = <<"T", "i", "m", "e", "s", " ", "N", "e", "w", " ", "R", "o", "m", "a", "n">>

----------------------------------------------------------------------------
(* Properties of renderElementTree *)

\* the override registered in styles for the label k of the node, or none
OverrideFor(node, k, styles) ==
    IF Truthy(node, k) /\ Has(styles, node[k]) THEN styles[node[k]] ELSE EmptyMap

\* the attributes of an override that are emitted as the prop propName
Naming(override, propName) == {a \in DOMAIN override : PropName(a) = propName}

\* the element e shows the node: each prop is what the override of the
\* node's id gives it, otherwise what the override of its class gives it,
\* otherwise what the node emitted; and it has a press handler exactly when
\* one is supplied and the node has an id or a class, which reports both
ResolvedProps(node, e, r) ==
    LET byId == OverrideFor(node, "id", r.elementStyles)
        byClass == OverrideFor(node, "className", r.classStyles)
        emitted == {PropName(a) : a \in DOMAIN byId \cup DOMAIN byClass}
    IN /\ DOMAIN e.props \ {"onPress"} = DOMAIN node.props \cup emitted
       /\ \A propName \in DOMAIN e.props \ {"onPress"} :
              IF Naming(byId, propName) # {}
              THEN \E a \in Naming(byId, propName) : e.props[propName] = byId[a]
              ELSE IF Naming(byClass, propName) # {}
              THEN \E a \in Naming(byClass, propName) : e.props[propName] = byClass[a]
              ELSE e.props[propName] = node.props[propName]
       /\ Has(e.props, "onPress")
              <=> r.onElementPress /\ (Truthy(node, "id") \/ Truthy(node, "className"))
       /\ Has(e.props, "onPress") =>
              /\ DOMAIN e.props.onPress = {"id", "className"} \cap DOMAIN node
              /\ \A k \in DOMAIN e.props.onPress : e.props.onPress[k] = node[k]

\* the element e and the elements under it show the node n and the nodes
\* under it, one for one and in order
RECURSIVE ResolvedTree(_, _, _)
ResolvedTree(n, e, r) ==
    LET node == r.svgTree[n]
    IN /\ ResolvedProps(node, e, r)
       /\ node.type # "text" =>
              /\ Len(e.children) = Len(node.children)
              /\ \A i \in 1..Len(node.children) :
                     ResolvedTree(node.children[i], e.children[i], r)

\* C33: in the rendered tree each node's attributes resolve by the
\* precedence id override, class override, own emitted attributes; a node
\* with neither label has its own attributes; the press handler, when
\* supplied, is on exactly the nodes with an id or a class and reports them.
C33_OverridesResolveByPrecedence ==
    rendered # <<>> => ResolvedTree(svg, rendered[1].element, rendered[1])

\* rendered with a press handler: a group 'vf-note' / 'vf-0' that emitted
\* fill red, shown with the fill blue of its id override although its class
\* override says green, and an unlabelled rect after it, shown as emitted
C33_Witness ==
    /\ rendered # <<>>
    /\ rendered[1].onElementPress
    /\ Len(rendered[1].svgTree) = 3
    /\ rendered[1].svgTree[1].children = <<2, 3>>
    /\ Truthy(rendered[1].svgTree[2], "id")
    /\ Truthy(rendered[1].svgTree[2], "className")
    /\ Has(rendered[1].svgTree[2].props, "fill")
    /\ rendered[1].svgTree[2].props.fill = "red"
    /\ Has(rendered[1].classStyles, "vf-note")
    /\ Has(rendered[1].classStyles["vf-note"], "fill")
    /\ Has(rendered[1].elementStyles, "vf-0")
    /\ rendered[1].element.children[1].props.fill = "blue"
    /\ Has(rendered[1].element.children[1].props, "onPress")
    /\ rendered[1].svgTree[3].type = "rect"
    /\ rendered[1].element.children[2].props = rendered[1].svgTree[3].props

----------------------------------------------------------------------------
(* Properties of the growth of the tree *)

\* the nodes of ns reachable from the nodes of the frontier
RECURSIVE ReachableFrom(_, _, _)
ReachableFrom(ns, frontier, seen) ==
    IF frontier \subseteq seen THEN seen
    ELSE ReachableFrom(ns, UNION {Range(ns[n].children) : n \in frontier \ seen},
                       seen \cup frontier)

InTree(ns) == ReachableFrom(ns, {svg}, {})

\* from the tree before to the tree after: each node of before is a node of
\* after, each child list of before begins the same list of after, and what
\* follows in it are nodes that did not exist before
Grows(before, after) ==
    /\ InTree(before) \subseteq InTree(after)
    /\ \A n \in InTree(before) :
           LET old == before[n].children
               new == after[n].children
           IN /\ Len(old) <= Len(new)
              /\ SubSeq(new, 1, Len(old)) = old
              /\ \A i \in (Len(old) + 1)..Len(new) : new[i] > Len(before)

\* C34: every call other than clear() leaves each node of the tree in the
\* tree, under the same parent and after the same earlier siblings; new
\* nodes come at the end of a child list; nothing is removed or reordered.
C34_TreeOnlyGrowsBetweenClears ==
    [][lastOp' # "clear" => Grows(nodes, nodes')]_vars

\* a rect was appended after a group that was opened and closed: the root
\* has the group and then the rect
C34_Witness ==
    /\ lastOp = "rect"
    /\ Len(nodes) = 3
    /\ nodes[svg].children = <<2, 3>>
    /\ nodes[2].type = "g"
    /\ nodes[3].type = "rect"
    /\ InTree(nodes) = {1, 2, 3}

----------------------------------------------------------------------------
(* Properties of the elision against the frames *)

PaintAttributes ==
    {"fill", "stroke", "stroke-width", "stroke-dasharray", "font-family", "font-size",
     "font-weight", "font-style"}

\* the attribute set the last leaf was emitted with
EmittedWith ==
    IF lastOp = "stroke" THEN Set(attributes, "fill", "none")
    ELSE Set(attributes, "stroke", "none")

\* C35: for a leaf that stroke(), fill() or fillText() appended and each
\* paint attribute its type accepts, the value read on the leaf, otherwise
\* on the nearest group or root around it that emits the attribute, is the
\* value of the attribute set the leaf was emitted with; under the root with
\* the default paint state as inside groups.
C35_ElisionKeepsVisualState ==
    (/\ lastOp \in {"stroke", "fill", "fillText"}
     /\ ~thrown
     /\ lastNode \in 1..Len(nodes)) =>
        \A a \in (PaintAttributes \cap DOMAIN attributes)
                 \ AttributesToIgnore(nodes[lastNode].type) :
            Resolves(groups, lastNode, a, EmittedWith[a])

\* What holds: the value is read as the claim says, or nothing around the
\* leaf emits the attribute and the value is the one the constructor put in
\* the root frame without writing it on the root.
ElisionLosesOnlyRootDefaults ==
    (/\ lastOp \in {"stroke", "fill", "fillText"}
     /\ ~thrown
     /\ lastNode \in 1..Len(nodes)) =>
        \A a \in (PaintAttributes \cap DOMAIN attributes)
                 \ AttributesToIgnore(nodes[lastNode].type) :
            \/ Resolves(groups, lastNode, a, EmittedWith[a])
            \/ ~Emits(groups, lastNode, a) /\ EmittedWith[a] = InitAttributes[a]

----------------------------------------------------------------------------
(* Properties of the two stacks *)

\* the two stacks have the same depth, the insertion point is the node on
\* top of the group stack, and the root is at the bottom
StacksAligned(gs, frames, at) ==
    /\ Len(gs) = Len(frames)
    /\ Len(gs) > 0
    /\ at = Last(gs)
    /\ gs[1] = svg

\* C36: in every state the group stack and the stack of effective
\* attributes have the same depth, the insertion point is the top of the
\* group stack and the bottom is the root; and every step only pushes on the
\* two stacks or pops them, so that a balanced sequence of opens and closes,
\* with any paint mutations in between, ends with the insertion point and
\* the top frame it began with.
C36_StacksAlignedAndBalanced ==
    [][/\ StacksAligned(groups, groupAttributes, parent)
       /\ StacksAligned(groups', groupAttributes', parent')
       /\ \A i \in 1..Len(groups) :
              i <= Len(groups') =>
                  groups'[i] = groups[i] /\ groupAttributes'[i] = groupAttributes[i]]_vars

\* What holds: the same, in the states in which the root is still on the
\* group stack.
StacksAlignedWhileRootStays ==
    [][(/\ Len(groups) > 0 /\ groups[1] = svg
        /\ Len(groups') > 0 /\ groups'[1] = svg) =>
         /\ StacksAligned(groups, groupAttributes, parent)
         /\ StacksAligned(groups', groupAttributes', parent')
         /\ \A i \in 1..Len(groups) :
                i <= Len(groups') =>
                    groups'[i] = groups[i] /\ groupAttributes'[i] = groupAttributes[i]]_vars

----------------------------------------------------------------------------
(* Properties of the large-arc flag *)

\* the angle travelled from a0 to a1 in the drawing direction, modulo a
\* full turn
Travelled(a0, a1, ccw) == (IF ccw THEN a0 - a1 ELSE a1 - a0) % TWO_PI

\* C37: an arc() call that is not a full circle writes the large-arc flag 1
\* when the angle travelled from the start angle to the end angle in the
\* drawing direction, modulo a full turn, is greater than pi, and 0 when it
\* is less than pi, for angles in any range.
C37_LargeArcFlagFollowsTravelledAngle ==
    [][\A a0 \in ArcAngles, a1 \in ArcAngles, ccw \in BOOLEAN :
          (/\ (IF ccw THEN a0 - a1 ELSE a1 - a0) < TWO_PI
           /\ a0 % TWO_PI # a1 % TWO_PI
           /\ Travelled(a0, a1, ccw) # PI
           /\ ArcCall(a0, a1, ccw)) =>
              \E sweep \in {"0", "1"} :
                 path' = path \o "M" \o PointAt(a0) \o " "
                              \o ArcTo(IF Travelled(a0, a1, ccw) > PI THEN "1" ELSE "0",
                                       sweep, a1)]_vars

\* arc(50, 50, 25, -pi / 2, pi, false) on an empty path: three quarters of
\* a turn from the top of the circle to its left, the large arc
C37_Witness ==
    /\ lastOp = "arc"
    /\ path = "M50 25 A25 25 0 1 1 25 50"
    /\ pen = [x |-> Num(25), y |-> Num(50)]

----------------------------------------------------------------------------
(* Properties of getFont() *)

\* the font of the current paint state
CurrentFont ==
    [family |-> attributes["font-family"], size |-> attributes["font-size"],
     weight |-> attributes["font-weight"], style |-> attributes["font-style"]]

\* C38: once a font has been set, getFont() is in every state the CSS string
\* of the font of the current paint state: of the font just set after
\* setFont, and of the font that was current at the matching save() after a
\* restore() that reverts the font attributes.
C38_GetFontDescribesCurrentFont ==
    getFont(Ctx) # "" => getFont(Ctx) = toCSSString(CurrentFont)

====
